---- MODULE Spec2Model ----
(***************************************************************************)
(* Model of the signal / intent scoring code of ai-sdr-backend:            *)
(*   - DefectionDetector (competitor-defector/detection/defection.detector) *)
(*   - enhancedRuleBasedScoring (services/aiScorer.js)                      *)
(*   - scoreLead and parseAIResponse (services/aiScorer.js)               *)
(*   - scoreLead of the Supabase edge function (supabase/functions/api)     *)
(* JavaScript strings are sequences of one-character strings, so that      *)
(* toLowerCase, indexOf, includes, substring and trim are computed.        *)
(***************************************************************************)
EXTENDS Integers, Sequences, FiniteSets, TLC

(***************************************************************************)
(* JavaScript values and string primitives                                 *)
(***************************************************************************)
JsStr(s) == [type |-> "string", val |-> s]
JsNum(n) == [type |-> "number", val |-> n]
JsNull == [type |-> "null"]
JsUndefined == [type |-> "undefined"]
JsObj == [type |-> "object"]
JsBool(b) == [type |-> "boolean", val |-> b]

IsString(v) == v.type = "string"

\* ToBoolean(v) = false: null, undefined, false, 0, ""
Falsy(v) ==
    \/ v.type \in {"null", "undefined"}
    \/ v.type = "boolean" /\ ~v.val
    \/ v.type = "number" /\ v.val = 0
    \/ v.type = "string" /\ v.val = <<>>

UpperChars == <<"A","B","C","D","E","F","G","H","I","J","K","L","M","N","O","P","Q","R","S","T","U","V","W","X","Y","Z">>
LowerChars == <<"a","b","c","d","e","f","g","h","i","j","k","l","m","n","o","p","q","r","s","t","u","v","w","x","y","z">>
Digits == {"0","1","2","3","4","5","6","7","8","9"}
WhiteSpace == {" "}

\* the lower-case letter of every upper-case letter
LowerOf ==
    [c \in {UpperChars[i] : i \in 1..26} |-> LowerChars[CHOOSE i \in 1..26 : UpperChars[i] = c]]

UpperSet == {UpperChars[i] : i \in 1..26}

ToLowerChar(c) == IF c \in UpperSet THEN LowerOf[c] ELSE c

\* the text used as it is, not lower-cased
toLowerCaseOmitted(s) == s

\* String.prototype.toLowerCase
toLowerCase(s) == [i \in 1..Len(s) |-> ToLowerChar(s[i])]

\* pat occurs in s at 0-based offset i
OccursAt(s, pat, i) ==
    /\ i >= 0
    /\ i + Len(pat) <= Len(s)
    /\ \A j \in 1..Len(pat) : s[i + j] = pat[j]

\* String.prototype.includes
includes(s, pat) == \E i \in 0..(Len(s) - Len(pat)) : OccursAt(s, pat, i)

\* String.prototype.indexOf: offset of the first occurrence, or -1
indexOf(s, pat) ==
    LET occ == {i \in 0..(Len(s) - Len(pat)) : OccursAt(s, pat, i)}
    IN  IF occ = {} THEN -1 ELSE CHOOSE i \in occ : \A k \in occ : i <= k

Max(a, b) == IF a >= b THEN a ELSE b
Min(a, b) == IF a <= b THEN a ELSE b

\* String.prototype.substring: arguments clamped to 0..length, swapped when start > end
substring(s, start, end) ==
    LET a == Min(Max(start, 0), Len(s))
        b == Min(Max(end, 0), Len(s))
        lo == Min(a, b)
        hi == Max(a, b)
    IN  [i \in 1..(hi - lo) |-> s[lo + i]]

\* String.prototype.trim
trim(s) ==
    LET nonWs == {i \in 1..Len(s) : s[i] \notin WhiteSpace}
    IN  IF nonWs = {} THEN <<>>
        ELSE LET lo == CHOOSE i \in nonWs : \A k \in nonWs : i <= k
                 hi == CHOOSE i \in nonWs : \A k \in nonWs : i >= k
             IN  [i \in 1..(hi - lo + 1) |-> s[lo + i - 1]]

\* array.slice(0, n)
Slice(seq, n) == SubSeq(seq, 1, Min(n, Len(seq)))

Ellipsis == <<".",".",".">>

(***************************************************************************)
(* Regular expressions.  A pattern is a tree; MatchEnds gives the offsets  *)
(* at which a match starting at offset i can end, in the order in which a  *)
(* backtracking matcher tries them (greedy quantifiers, alternatives left   *)
(* to right), so the first one is the end of the match.                     *)
(***************************************************************************)
Letters == {UpperChars[i] : i \in 1..26} \cup {LowerChars[i] : i \in 1..26}
WordChars == Letters \cup Digits \cup {"_"}

Lit(str) == [op |-> "lit", s |-> str]
OneOf(set) == [op |-> "class", set |-> set, neg |-> FALSE]
NoneOf(set) == [op |-> "class", set |-> set, neg |-> TRUE]
Cat(items) == [op |-> "cat", items |-> items]
Alt(items) == [op |-> "alt", items |-> items]
Star(r) == [op |-> "star", a |-> r]
Plus(r) == Cat(<<r, Star(r)>>)
Opt(r) == Alt(<<r, Cat(<<>>)>>)
WordB == [op |-> "wb"]
\* $ without the m flag
EndOfInput == [op |-> "end"]

\* \b at offset i: exactly one of the characters before and after is a word character
AtWordBoundary(s, i) ==
    (i > 0 /\ s[i] \in WordChars) # (i < Len(s) /\ s[i + 1] \in WordChars)

\* the literal occurs at offset i; ci is the i flag
LitAt(s, str, i, ci) ==
    /\ i + Len(str) <= Len(s)
    /\ \A j \in 1..Len(str) :
          IF ci THEN ToLowerChar(s[i + j]) = ToLowerChar(str[j]) ELSE s[i + j] = str[j]

InClass(c, class) == (c \in class.set) # class.neg

\* greedy class*: the ends of the run of class characters from offset i, longest first
ClassRunEnds(class, s, i) ==
    LET run == CHOOSE n \in 0..(Len(s) - i) :
                 /\ \A j \in 1..n : InClass(s[i + j], class)
                 /\ (n = Len(s) - i \/ ~InClass(s[i + n + 1], class))
    IN  [k \in 1..(run + 1) |-> i + run + 1 - k]

RECURSIVE MatchEnds(_, _, _, _), CatFrom(_, _, _, _, _), CatOver(_, _, _, _, _),
          AltFrom(_, _, _, _, _), StarFrom(_, _, _, _), StarOver(_, _, _, _, _)
MatchEnds(re, s, i, ci) ==
    CASE re.op = "lit" -> IF LitAt(s, re.s, i, ci) THEN <<i + Len(re.s)>> ELSE <<>>
      [] re.op = "class" ->
            IF i < Len(s) /\ InClass(s[i + 1], re) THEN <<i + 1>> ELSE <<>>
      [] re.op = "wb" -> IF AtWordBoundary(s, i) THEN <<i>> ELSE <<>>
      [] re.op = "end" -> IF i = Len(s) THEN <<i>> ELSE <<>>
      [] re.op = "cat" -> CatFrom(re.items, 1, s, i, ci)
      [] re.op = "alt" -> AltFrom(re.items, 1, s, i, ci)
      [] re.op = "star" ->
            IF re.a.op = "class" THEN ClassRunEnds(re.a, s, i) ELSE StarFrom(re.a, s, i, ci)

\* items k.. of a concatenation, from offset i
CatFrom(items, k, s, i, ci) ==
    IF k > Len(items) THEN <<i>>
    ELSE CatOver(items, k + 1, s, MatchEnds(items[k], s, i, ci), ci)

\* the continuations from every end in turn, the list of ends split in halves
CatOver(items, k, s, ends, ci) ==
    IF ends = <<>> THEN <<>>
    ELSE IF Len(ends) = 1 THEN CatFrom(items, k, s, ends[1], ci)
    ELSE LET half == Len(ends) \div 2
         IN  CatOver(items, k, s, SubSeq(ends, 1, half), ci)
                \o CatOver(items, k, s, SubSeq(ends, half + 1, Len(ends)), ci)

AltFrom(items, k, s, i, ci) ==
    IF k > Len(items) THEN <<>>
    ELSE MatchEnds(items[k], s, i, ci) \o AltFrom(items, k + 1, s, i, ci)

\* greedy r*: one more r first, the empty match last; an empty iteration is not repeated
StarFrom(r, s, i, ci) == StarOver(r, s, i, MatchEnds(r, s, i, ci), ci) \o <<i>>

StarOver(r, s, i, ends, ci) ==
    IF ends = <<>> THEN <<>>
    ELSE (IF Head(ends) > i THEN StarFrom(r, s, Head(ends), ci) ELSE <<>>)
            \o StarOver(r, s, i, Tail(ends), ci)

NoMatch == [found |-> FALSE]

\* the offsets at which the pattern matches, in order, each with the end of its match
MatchStarts(re, s, ci) ==
    SelectSeq([k \in 1..(Len(s) + 1) |->
                  LET ends == MatchEnds(re, s, k - 1, ci)
                  IN  IF ends = <<>> THEN [found |-> FALSE]
                      ELSE [found |-> TRUE, start |-> k - 1, end |-> Head(ends),
                            text |-> substring(s, k - 1, Head(ends))]],
              LAMBDA m : m.found)

\* the leftmost of the matches at an offset >= from (lastIndex)
LeftmostFrom(matches, from) ==
    LET later == {k \in 1..Len(matches) : matches[k].start >= from}
    IN  IF later = {} THEN NoMatch
        ELSE matches[CHOOSE k \in later : \A l \in later : k <= l]

\* the leftmost match at an offset >= from: its offsets and text (match[0])
ExecFrom(re, s, from, ci) == LeftmostFrom(MatchStarts(re, s, ci), from)

\* RegExp.prototype.test / String.prototype.match without the g flag
Exec(re, s, ci) == ExecFrom(re, s, 0, ci)
Test(re, s, ci) == Exec(re, s, ci).found

RECURSIVE MatchAllFrom(_, _)
\* the texts of the successive matches, each searched from the end of the one before
MatchAllFrom(matches, from) ==
    LET m == LeftmostFrom(matches, from)
    IN  IF ~m.found THEN <<>>
        ELSE <<m.text>> \o MatchAllFrom(matches, IF m.end = m.start THEN m.end + 1 ELSE m.end)

\* String.prototype.match with the g flag
MatchAll(re, s, ci) == MatchAllFrom(MatchStarts(re, s, ci), 0)

(***************************************************************************)
(* DefectionDetector                                                       *)
(***************************************************************************)
\* one property of the keywords object: 'phrase': { weight, category }
KW(p, w, c) == [phrase |-> p, weight |-> w, category |-> c]

\* the keywords object as the sequence of its properties in insertion order
getDefaultKeywords ==
    <<
    KW(<<"s","w","i","t","c","h","i","n","g"," ","f","r","o","m">>, 5, "switching"),
    KW(<<"s","w","i","t","c","h"," ","f","r","o","m">>, 5, "switching"),
    KW(<<"s","w","i","t","c","h","i","n","g"," ","t","o">>, 4, "switching"),
    KW(<<"s","w","i","t","c","h","e","d"," ","t","o">>, 4, "switching"),
    KW(<<"m","o","v","e","d"," ","t","o">>, 4, "switching"),
    KW(<<"m","i","g","r","a","t","i","n","g"," ","t","o">>, 5, "switching"),
    KW(<<"m","o","v","i","n","g"," ","a","w","a","y"," ","f","r","o","m">>, 5, "switching"),
    KW(<<"l","e","f","t"," ","f","o","r">>, 5, "switching"),
    KW(<<"l","o","o","k","i","n","g"," ","f","o","r"," ","a","l","t","e","r","n","a","t","i","v","e">>, 4, "alternative"),
    KW(<<"e","v","a","l","u","a","t","i","n","g"," ","a","l","t","e","r","n","a","t","i","v","e","s">>, 4, "alternative"),
    KW(<<"c","o","n","s","i","d","e","r","i","n","g"," ","a","l","t","e","r","n","a","t","i","v","e","s">>, 4, "alternative"),
    KW(<<"e","x","p","l","o","r","i","n","g"," ","o","p","t","i","o","n","s">>, 3, "alternative"),
    KW(<<"b","e","t","t","e","r"," ","a","l","t","e","r","n","a","t","i","v","e">>, 3, "alternative"),
    KW(<<"c","h","e","a","p","e","r"," ","a","l","t","e","r","n","a","t","i","v","e">>, 3, "alternative"),
    KW(<<"a","l","t","e","r","n","a","t","i","v","e"," ","t","o">>, 3, "alternative"),
    KW(<<"l","o","o","k","i","n","g"," ","t","o"," ","r","e","p","l","a","c","e">>, 4, "replacement"),
    KW(<<"n","e","e","d"," ","t","o"," ","r","e","p","l","a","c","e">>, 4, "replacement"),
    KW(<<"r","e","p","l","a","c","i","n","g"," ","w","i","t","h">>, 4, "replacement"),
    KW(<<"r","e","p","l","a","c","e"," ","w","i","t","h">>, 3, "replacement"),
    KW(<<"t","i","r","e","d"," ","o","f">>, 4, "pain"),
    KW(<<"f","e","d"," ","u","p"," ","w","i","t","h">>, 4, "pain"),
    KW(<<"s","i","c","k"," ","o","f">>, 4, "pain"),
    KW(<<"f","r","u","s","t","r","a","t","e","d"," ","w","i","t","h">>, 4, "pain"),
    KW(<<"h","a","t","e"," ","u","s","i","n","g">>, 4, "pain"),
    KW(<<"u","n","h","a","p","p","y"," ","w","i","t","h">>, 3, "pain"),
    KW(<<"d","i","s","s","a","t","i","s","f","i","e","d"," ","w","i","t","h">>, 3, "pain"),
    KW(<<"d","i","s","a","p","p","o","i","n","t","e","d"," ","w","i","t","h">>, 3, "pain"),
    KW(<<"r","e","g","r","e","t"," ","c","h","o","o","s","i","n","g">>, 4, "pain"),
    KW(<<"w","a","s","t","e"," ","o","f"," ","m","o","n","e","y">>, 4, "pain"),
    KW(<<"n","o","t"," ","w","o","r","t","h"," ","t","h","e">>, 3, "pain"),
    KW(<<"p","r","o","b","l","e","m","s"," ","w","i","t","h">>, 3, "pain"),
    KW(<<"i","s","s","u","e","s"," ","w","i","t","h">>, 3, "pain"),
    KW(<<"c","o","n","s","t","a","n","t","l","y"," ","c","r","a","s","h","e","s">>, 3, "pain"),
    KW(<<"b","u","g","g","y">>, 2, "pain"),
    KW(<<"u","n","r","e","l","i","a","b","l","e">>, 3, "pain"),
    KW(<<"t","e","r","r","i","b","l","e"," ","s","u","p","p","o","r","t">>, 3, "pain"),
    KW(<<"p","o","o","r"," ","c","u","s","t","o","m","e","r"," ","s","e","r","v","i","c","e">>, 3, "pain"),
    KW(<<"c","a","n","c","e","l","i","n","g"," ","s","u","b","s","c","r","i","p","t","i","o","n">>, 5, "churn"),
    KW(<<"c","a","n","c","e","l","l","e","d"," ","s","u","b","s","c","r","i","p","t","i","o","n">>, 5, "churn"),
    KW(<<"n","o","t"," ","r","e","n","e","w","i","n","g">>, 5, "churn"),
    KW(<<"w","o","n","'","t"," ","r","e","n","e","w">>, 5, "churn"),
    KW(<<"s","u","b","s","c","r","i","p","t","i","o","n"," ","e","n","d","i","n","g">>, 4, "churn"),
    KW(<<"l","e","a","v","i","n","g"," ","f","o","r">>, 5, "churn"),
    KW(<<"s","t","o","p","p","e","d"," ","u","s","i","n","g">>, 4, "churn"),
    KW(<<"d","o","n","e"," ","w","i","t","h">>, 4, "churn"),
    KW(<<"n","e","e","d"," ","s","o","m","e","t","h","i","n","g"," ","a","s","a","p">>, 3, "timeline"),
    KW(<<"i","m","m","e","d","i","a","t","e","l","y">>, 3, "timeline"),
    KW(<<"t","h","i","s"," ","q","u","a","r","t","e","r">>, 2, "timeline"),
    KW(<<"e","n","d"," ","o","f"," ","m","o","n","t","h">>, 2, "timeline"),
    KW(<<"n","e","x","t"," ","m","o","n","t","h">>, 2, "timeline"),
    KW(<<"c","o","m","p","a","r","i","n","g"," ","w","i","t","h">>, 3, "comparison"),
    KW(<<"v","e","r","s","u","s">>, 3, "comparison"),
    KW(<<"v","s">>, 2, "comparison"),
    KW(<<"l","o","o","k","i","n","g"," ","a","t">>, 2, "comparison")
    >>

MinTextLength == 10
MinScoreThreshold == 30
DefaultMinKeywordMatches == 1
DefaultContextWindow == 100

\* new DefectionDetector(config); a || b takes b when a is undefined, false or 0
constructor(config) ==
    [keywords |-> IF "keywords" \in DOMAIN config THEN config.keywords ELSE getDefaultKeywords,
     caseSensitive |-> IF "caseSensitive" \in DOMAIN config THEN config.caseSensitive ELSE FALSE,
     minKeywordMatches |->
        IF "minKeywordMatches" \in DOMAIN config /\ config.minKeywordMatches # 0
        THEN config.minKeywordMatches ELSE DefaultMinKeywordMatches,
     contextWindow |->
        IF "contextWindow" \in DOMAIN config /\ config.contextWindow # 0
        THEN config.contextWindow ELSE DefaultContextWindow]

\* JavaScript numbers are the integers and NaN; NaN is written as an integer that
\* no weight or score takes, and is tested by IsNumber before it is compared
NaN == 0 - 1000000
IsNumber(x) == x # NaN

\* a + b on numbers, NaN when an operand is undefined or NaN
JsAdd(a, b) == IF IsNumber(a) /\ IsNumber(b) THEN a + b ELSE NaN

HasCategory(categories, c) == c \in DOMAIN categories

\* calculateScore with matchCount === 3 in place of matchCount >= 3
RawScoreExactCount(totalWeight, matchCount, categories) ==
    LET categoryCount == Cardinality(DOMAIN categories)
    IN  Min(50, totalWeight * 5)
            + (IF matchCount = 3 THEN 15 ELSE 0)
            + (IF matchCount >= 5 THEN 10 ELSE 0)
            + (IF categoryCount >= 2 THEN 10 ELSE 0)
            + (IF categoryCount >= 3 THEN 10 ELSE 0)
            + (IF HasCategory(categories, "switching") /\ HasCategory(categories, "pain") THEN 10 ELSE 0)
            + (IF HasCategory(categories, "churn") /\ HasCategory(categories, "alternative") THEN 15 ELSE 0)
            + (IF HasCategory(categories, "switching") /\ HasCategory(categories, "timeline") THEN 10 ELSE 0)

\* the value of score before the final Math.min(100, score)
RawScore(totalWeight, matchCount, categories) ==
    LET categoryCount == Cardinality(DOMAIN categories)
    IN  Min(50, totalWeight * 5)
            + (IF matchCount >= 3 THEN 15 ELSE 0)
            + (IF matchCount >= 5 THEN 10 ELSE 0)
            + (IF categoryCount >= 2 THEN 10 ELSE 0)
            + (IF categoryCount >= 3 THEN 10 ELSE 0)
            + (IF HasCategory(categories, "switching") /\ HasCategory(categories, "pain") THEN 10 ELSE 0)
            + (IF HasCategory(categories, "churn") /\ HasCategory(categories, "alternative") THEN 15 ELSE 0)
            + (IF HasCategory(categories, "switching") /\ HasCategory(categories, "timeline") THEN 10 ELSE 0)

\* calculateScore returning score without Math.min(100, score)
calculateScoreNoClamp(totalWeight, matchCount, categories) ==
    IF ~IsNumber(totalWeight) THEN NaN
    ELSE RawScore(totalWeight, matchCount, categories)

\* calculateScore averaging the weight over the matches: 0 / 0 is NaN
calculateScoreAverage(totalWeight, matchCount, categories) ==
    IF ~IsNumber(totalWeight) \/ matchCount = 0 THEN NaN
    ELSE Min(100, RawScore(totalWeight, matchCount, categories))

\* arithmetic on NaN gives NaN, and Math.min(100, NaN) is NaN
calculateScore(totalWeight, matchCount, categories) ==
    IF ~IsNumber(totalWeight) THEN NaN
    ELSE Min(100, RawScore(totalWeight, matchCount, categories))

extractExcerpt(d, text, position, keywordLength) ==
    LET start == Max(0, position - d.contextWindow)
        end == Min(Len(text), position + keywordLength + d.contextWindow)
        body == substring(text, start, end)
        withHead == IF start > 0 THEN Ellipsis \o body ELSE body
        withTail == IF end < Len(text) THEN withHead \o Ellipsis ELSE withHead
    IN  trim(withTail)

\* determineSentiment with the negative test before the mixed one
determineSentimentNegativeFirst(categories) ==
    LET hasNegative == \E c \in {"pain", "churn"} : HasCategory(categories, c)
        hasPositive == \E c \in {"switching", "alternative"} : HasCategory(categories, c)
    IN  IF hasNegative THEN "negative"
        ELSE IF hasPositive THEN "seeking_alternative"
        ELSE "neutral"

determineSentiment(categories) ==
    LET hasNegative == \E c \in {"pain", "churn"} : HasCategory(categories, c)
        hasPositive == \E c \in {"switching", "alternative"} : HasCategory(categories, c)
    IN  IF hasNegative /\ hasPositive THEN "mixed_defection"
        ELSE IF hasNegative THEN "negative"
        ELSE IF hasPositive THEN "seeking_alternative"
        ELSE "neutral"

\* config.weight as an operand of +=: a missing weight is undefined, and number + undefined is NaN
WeightOf(e) == IF "weight" \in DOMAIN e THEN e.weight ELSE NaN

\* config.category as a property key: a missing category is the key 'undefined'
CategoryOf(e) == IF "category" \in DOMAIN e THEN e.category ELSE "undefined"

BaselineResult ==
    [kind |-> "result", hasDefectionSignal |-> FALSE, score |-> 0, keywords |-> <<>>,
     categories |-> <<>>, excerpts |-> <<>>, sentiment |-> "neutral"]

TypeError == [kind |-> "throw", error |-> "TypeError"]

\* normalizedText.indexOf(searchText) for the entry e of the lexicon
KeywordIndex(d, text, normalizedText, e) ==
    LET searchText == IF d.caseSensitive THEN text ELSE toLowerCase(e.phrase)
    IN  indexOf(normalizedText, searchText)

RECURSIVE TotalWeight(_, _, _)
\* totalWeight += config.weight over the entries lo..hi of the matched entries
TotalWeight(ws, lo, hi) ==
    IF lo > hi THEN 0
    ELSE IF lo = hi THEN JsAdd(0, ws[lo])
    ELSE LET mid == (lo + hi) \div 2
         IN  JsAdd(TotalWeight(ws, lo, mid), TotalWeight(ws, mid + 1, hi))

\* for (const [keyword, config] of Object.entries(this.keywords)), entries 1..k:
\* the entries found in the text, in lexicon order, and what the loop collects of them
MatchLoop(d, text, normalizedText, k) ==
    LET looked == [i \in 1..k |->
                     [entry |-> d.keywords[i],
                      index |-> KeywordIndex(d, text, normalizedText, d.keywords[i])]]
        found == SelectSeq(looked, LAMBDA f : f.index # -1)
        cats == {CategoryOf(found[j].entry) : j \in 1..Len(found)}
    IN  [matches |-> [j \in 1..Len(found) |-> found[j].entry.phrase],
         totalWeight |->
            TotalWeight([j \in 1..Len(found) |-> WeightOf(found[j].entry)], 1, Len(found)),
         categories |->
            [c \in cats |->
                LET same == SelectSeq(found, LAMBDA f : CategoryOf(f.entry) = c)
                IN  [j \in 1..Len(same) |-> same[j].entry.phrase]],
         excerpts |->
            [j \in 1..Len(found) |->
                [keyword |-> found[j].entry.phrase,
                 excerpt |-> extractExcerpt(d, text, found[j].index, Len(found[j].entry.phrase)),
                 position |-> found[j].index]]]

\* the guard without the length test
TooShortNoLength(text) == Falsy(text)

\* if (!text || text.length < 10); the length of a non-string is undefined, and undefined < 10 is false
TooShort(text) == Falsy(text) \/ (IsString(text) /\ Len(text.val) < MinTextLength)

\* score > 30 in place of score >= 30
IsSignalStrict(d, matchCount, score) ==
    matchCount >= d.minKeywordMatches /\ IsNumber(score) /\ score > MinScoreThreshold

\* matches.length >= this.minKeywordMatches && score >= 30; every comparison with NaN is false
IsSignal(d, matchCount, score) ==
    matchCount >= d.minKeywordMatches /\ IsNumber(score) /\ score >= MinScoreThreshold

\* analyze(text) on detector d; text is any JavaScript value
analyze(d, text) ==
    IF TooShort(text) THEN BaselineResult
    ELSE IF ~IsString(text) /\ (~d.caseSensitive \/ Len(d.keywords) > 0) THEN TypeError
    ELSE
    LET t == IF IsString(text) THEN text.val ELSE <<>>
        normalizedText == IF d.caseSensitive THEN t ELSE toLowerCase(t)
        acc == MatchLoop(d, t, normalizedText, Len(d.keywords))
        score == calculateScore(acc.totalWeight, Len(acc.matches), acc.categories)
    IN  [kind |-> "result",
         hasDefectionSignal |-> IsSignal(d, Len(acc.matches), score),
         score |-> score,
         keywords |-> acc.matches,
         categories |-> acc.categories,
         excerpts |-> acc.excerpts,
         sentiment |-> determineSentiment(acc.categories),
         matchCount |-> Len(acc.matches)]

\* { id: item.id, ...this.analyze(item.text) }
BatchEntry(item, r) == [k \in DOMAIN r \cup {"id"} |-> IF k \in DOMAIN r THEN r[k] ELSE item.id]

\* batchAnalyze(items): items.map(...); an exception thrown for one item leaves map
batchAnalyze(d, items) ==
    LET results == [k \in 1..Len(items) |-> analyze(d, items[k].text)]
    IN  IF \E k \in 1..Len(items) : results[k].kind = "throw" THEN TypeError
        ELSE [kind |-> "value",
              value |-> [k \in 1..Len(items) |-> BatchEntry(items[k], results[k])]]

(***************************************************************************)
(* DefectionDetector: extraction helpers                                   *)
(***************************************************************************)
\* [^.]*[.!?]
SentenceRest == <<Star(NoneOf({"."})), OneOf({".", "!", "?"})>>

\* the four patterns of extractPainPoints, each with the flags gi
painPatterns ==
    <<Cat(<<Alt(<<Lit(<<"p","r","o","b","l","e","m">>),
          Lit(<<"i","s","s","u","e">>),
          Lit(<<"p","a","i","n">>),
          Lit(<<"s","t","r","u","g","g","l","e">>),
          Lit(<<"d","i","f","f","i","c","u","l","t">>),
          Lit(<<"h","a","r","d"," ","t","o">>),
          Lit(<<"c","a","n","'","t">>),
          Lit(<<"c","a","n","n","o","t">>),
          Lit(<<"u","n","a","b","l","e"," ","t","o">>)>>)>> \o SentenceRest),
      Cat(<<Alt(<<Lit(<<"w","i","s","h">>),
          Lit(<<"w","o","u","l","d"," ","b","e"," ","n","i","c","e">>),
          Lit(<<"n","e","e","d">>),
          Lit(<<"m","i","s","s","i","n","g">>),
          Lit(<<"l","a","c","k","i","n","g">>),
          Lit(<<"d","o","e","s","n","'","t"," ","h","a","v","e">>)>>)>> \o SentenceRest),
      Cat(<<Alt(<<Lit(<<"t","o","o"," ","e","x","p","e","n","s","i","v","e">>),
          Lit(<<"c","o","s","t","l","y">>),
          Lit(<<"o","v","e","r","p","r","i","c","e","d">>),
          Lit(<<"n","o","t"," ","w","o","r","t","h">>)>>)>> \o SentenceRest),
      Cat(<<Alt(<<Lit(<<"s","l","o","w">>),
          Lit(<<"l","a","g","g","y">>),
          Lit(<<"c","r","a","s","h","e","s">>),
          Lit(<<"b","u","g","s">>),
          Lit(<<"g","l","i","t","c","h","e","s">>),
          Lit(<<"u","n","s","t","a","b","l","e">>)>>)>> \o SentenceRest)>>

\* the three patterns of extractDesiredFeatures, each with the flags gi
featurePatterns ==
    <<Cat(<<Alt(<<Lit(<<"w","i","s","h"," ","i","t"," ","h","a","d">>),
          Lit(<<"w","o","u","l","d"," ","l","o","v","e">>),
          Lit(<<"n","e","e","d">>),
          Lit(<<"m","i","s","s","i","n","g">>),
          Lit(<<"s","h","o","u","l","d"," ","h","a","v","e">>),
          Lit(<<"c","o","u","l","d"," ","u","s","e">>)>>)>> \o SentenceRest),
      Cat(<<Alt(<<Lit(<<"f","e","a","t","u","r","e">>),
          Lit(<<"f","u","n","c","t","i","o","n","a","l","i","t","y">>),
          Lit(<<"c","a","p","a","b","i","l","i","t","y">>),
          Lit(<<"o","p","t","i","o","n">>),
          Lit(<<"s","e","t","t","i","n","g">>)>>)>> \o SentenceRest),
      Cat(<<Alt(<<Lit(<<"i","n","t","e","g","r","a","t","e">>),
          Lit(<<"i","n","t","e","g","r","a","t","i","o","n">>),
          Lit(<<"c","o","n","n","e","c","t">>),
          Lit(<<"s","y","n","c">>),
          Lit(<<"a","p","i">>)>>)>> \o SentenceRest)>>

RECURSIVE CollectMatches(_, _, _)
\* for (const pattern of patterns) { matches = text.match(pattern); if (matches) push(...matches.map(trim)) }
CollectMatches(patterns, k, text) ==
    IF k > Len(patterns) THEN <<>>
    ELSE LET matches == MatchAll(patterns[k], text, TRUE)
         IN  [i \in 1..Len(matches) |-> trim(matches[i])] \o CollectMatches(patterns, k + 1, text)

RECURSIVE Dedupe(_)
\* [...new Set(list)]: the first occurrence of every element, in order
Dedupe(list) ==
    IF list = <<>> THEN <<>>
    ELSE LET front == Dedupe(SubSeq(list, 1, Len(list) - 1))
             last == list[Len(list)]
         IN  IF \E i \in 1..Len(front) : front[i] = last THEN front ELSE Append(front, last)

MaxExtracted == 5

\* extractPainPoints without the Set
extractPainPointsNoDedupe(text) == Slice(CollectMatches(painPatterns, 1, text), MaxExtracted)

extractPainPoints(text) == Slice(Dedupe(CollectMatches(painPatterns, 1, text)), MaxExtracted)

extractDesiredFeatures(text) == Slice(Dedupe(CollectMatches(featurePatterns, 1, text)), MaxExtracted)

\* the patterns of detectTimeline in their order, each with the flag i
timelinePatterns ==
    <<[pattern |-> Alt(<<Lit(<<"a","s","a","p">>),
          Lit(<<"i","m","m","e","d","i","a","t","e","l","y">>),
          Lit(<<"r","i","g","h","t"," ","a","w","a","y">>),
          Lit(<<"u","r","g","e","n","t">>)>>),
       value |-> "ASAP"],
      [pattern |-> Alt(<<Lit(<<"t","h","i","s"," ","w","e","e","k">>),
          Lit(<<"w","i","t","h","i","n"," ","a"," ","w","e","e","k">>),
          Lit(<<"n","e","x","t"," ","f","e","w"," ","d","a","y","s">>)>>),
       value |-> "This week"],
      [pattern |-> Alt(<<Lit(<<"t","h","i","s"," ","m","o","n","t","h">>),
          Lit(<<"e","n","d"," ","o","f"," ","m","o","n","t","h">>),
          Lit(<<"m","o","n","t","h"," ","e","n","d">>)>>),
       value |-> "This month"],
      [pattern |-> Alt(<<Lit(<<"n","e","x","t"," ","m","o","n","t","h">>),
          Lit(<<"c","o","m","i","n","g"," ","m","o","n","t","h">>)>>),
       value |-> "Next month"],
      [pattern |-> Alt(<<Lit(<<"t","h","i","s"," ","q","u","a","r","t","e","r">>), Cat(<<Lit(<<"q">>), OneOf({"1", "2", "3", "4"})>>), Lit(<<"q","u","a","r","t","e","r">>)>>),
       value |-> "This quarter"],
      [pattern |-> Alt(<<Lit(<<"n","e","x","t"," ","q","u","a","r","t","e","r">>),
          Lit(<<"c","o","m","i","n","g"," ","q","u","a","r","t","e","r">>)>>),
       value |-> "Next quarter"],
      [pattern |-> Alt(<<Lit(<<"t","h","i","s"," ","y","e","a","r">>),
          Lit(<<"e","n","d"," ","o","f"," ","y","e","a","r">>),
          Lit(<<"y","e","a","r"," ","e","n","d">>)>>),
       value |-> "This year"],
      [pattern |-> Alt(<<Lit(<<"6"," ","m","o","n","t","h","s">>),
          Lit(<<"s","i","x"," ","m","o","n","t","h","s">>),
          Lit(<<"h","a","l","f"," ","y","e","a","r">>)>>),
       value |-> "6 months"],
      [pattern |-> Alt(<<Lit(<<"1"," ","y","e","a","r">>),
          Lit(<<"o","n","e"," ","y","e","a","r">>),
          Lit(<<"a","n","n","u","a","l">>)>>),
       value |-> "1 year"]>>

RECURSIVE detectTimelineFrom(_, _)
detectTimelineFrom(k, text) ==
    IF k > Len(timelinePatterns) THEN JsNull
    ELSE IF Test(timelinePatterns[k].pattern, text, TRUE) THEN JsStr(timelinePatterns[k].value)
    ELSE detectTimelineFrom(k + 1, text)

\* the value of the last pattern that matches, or null
detectTimelineLast(text) ==
    LET matching == {k \in 1..Len(timelinePatterns) : Test(timelinePatterns[k].pattern, text, TRUE)}
    IN  IF matching = {} THEN JsNull
        ELSE JsStr(timelinePatterns[CHOOSE k \in matching : \A l \in matching : k >= l].value)

\* the value of the first pattern that matches, or null
detectTimeline(text) == detectTimelineFrom(1, text)

\* /\b(switched to|moved to|migrated to|now using|currently using|we use)\b/i
StageImplemented ==
    Cat(<<WordB, Alt(<<Lit(<<"s","w","i","t","c","h","e","d"," ","t","o">>),
          Lit(<<"m","o","v","e","d"," ","t","o">>),
          Lit(<<"m","i","g","r","a","t","e","d"," ","t","o">>),
          Lit(<<"n","o","w"," ","u","s","i","n","g">>),
          Lit(<<"c","u","r","r","e","n","t","l","y"," ","u","s","i","n","g">>),
          Lit(<<"w","e"," ","u","s","e">>)>>), WordB>>)

\* /\b(decided to|choosing|going with|will be using|plan to use)\b/i
StageDecided ==
    Cat(<<WordB, Alt(<<Lit(<<"d","e","c","i","d","e","d"," ","t","o">>),
          Lit(<<"c","h","o","o","s","i","n","g">>),
          Lit(<<"g","o","i","n","g"," ","w","i","t","h">>),
          Lit(<<"w","i","l","l"," ","b","e"," ","u","s","i","n","g">>),
          Lit(<<"p","l","a","n"," ","t","o"," ","u","s","e">>)>>), WordB>>)

\* /\b(evaluating|comparing|testing|trial|demo|poc|pilot)\b/i
StageEvaluating ==
    Cat(<<WordB, Alt(<<Lit(<<"e","v","a","l","u","a","t","i","n","g">>),
          Lit(<<"c","o","m","p","a","r","i","n","g">>),
          Lit(<<"t","e","s","t","i","n","g">>),
          Lit(<<"t","r","i","a","l">>),
          Lit(<<"d","e","m","o">>),
          Lit(<<"p","o","c">>),
          Lit(<<"p","i","l","o","t">>)>>), WordB>>)

\* /\b(looking for|considering|exploring|researching|interested in)\b/i
StageResearching ==
    Cat(<<WordB, Alt(<<Lit(<<"l","o","o","k","i","n","g"," ","f","o","r">>),
          Lit(<<"c","o","n","s","i","d","e","r","i","n","g">>),
          Lit(<<"e","x","p","l","o","r","i","n","g">>),
          Lit(<<"r","e","s","e","a","r","c","h","i","n","g">>),
          Lit(<<"i","n","t","e","r","e","s","t","e","d"," ","i","n">>)>>), WordB>>)

\* detectStage with the tests in the order of the funnel, researching first
detectStageResearchingFirst(text) ==
    LET lowerText == toLowerCase(text)
    IN  IF Test(StageResearching, lowerText, TRUE) THEN "researching"
        ELSE IF Test(StageEvaluating, lowerText, TRUE) THEN "evaluating"
        ELSE IF Test(StageDecided, lowerText, TRUE) THEN "decided"
        ELSE IF Test(StageImplemented, lowerText, TRUE) THEN "implemented"
        ELSE "unknown"

detectStage(text) ==
    LET lowerText == toLowerCase(text)
    IN  IF Test(StageImplemented, lowerText, TRUE) THEN "implemented"
        ELSE IF Test(StageDecided, lowerText, TRUE) THEN "decided"
        ELSE IF Test(StageEvaluating, lowerText, TRUE) THEN "evaluating"
        ELSE IF Test(StageResearching, lowerText, TRUE) THEN "researching"
        ELSE "unknown"

(***************************************************************************)
(* services/aiScorer.js: enhancedRuleBasedScoring                          *)
(***************************************************************************)
\* Object.values(SIGNALS.hot): urgent, budget, decision, action
SignalsHot ==
    <<<<"u","r","g","e","n","t">>,
         <<"a","s","a","p">>,
         <<"i","m","m","e","d","i","a","t","e","l","y">>,
         <<"t","h","i","s"," ","w","e","e","k">>,
         <<"t","o","d","a","y">>,
         <<"h","i","r","i","n","g"," ","n","o","w">>,
         <<"s","t","a","r","t"," ","a","s","a","p">>,
         <<"n","e","e","d"," ","a","s","a","p">>,
         <<"q","u","i","c","k","l","y">>,
         <<"e","m","e","r","g","e","n","c","y">>,
         <<"c","r","i","t","i","c","a","l">>,
         <<"d","e","a","d","l","i","n","e">>,
         <<"r","u","s","h">>>>
    \o <<<<"$","5","0","k">>,
         <<"$","1","0","0","k">>,
         <<"$","5","0","0","k">>,
         <<"$","1","m">>,
         <<"$","1","M">>,
         <<"m","i","l","l","i","o","n">>,
         <<"b","u","d","g","e","t"," ","a","p","p","r","o","v","e","d">>,
         <<"a","l","l","o","c","a","t","e","d"," ","b","u","d","g","e","t">>,
         <<"f","u","n","d","i","n","g"," ","s","e","c","u","r","e","d">>,
         <<"s","e","r","i","e","s"," ","a">>,
         <<"s","e","r","i","e","s"," ","b">>,
         <<"r","a","i","s","e","d">>,
         <<"j","u","s","t"," ","f","u","n","d","e","d">>>>
    \o <<<<"d","e","c","i","s","i","o","n"," ","m","a","d","e">>,
         <<"a","p","p","r","o","v","e","d">>,
         <<"r","e","a","d","y"," ","t","o"," ","b","u","y">>,
         <<"r","e","a","d","y"," ","t","o"," ","s","t","a","r","t">>,
         <<"s","i","g","n","e","d"," ","o","f","f">>,
         <<"g","r","e","e","n"," ","l","i","g","h","t">>,
         <<"g","o"," ","a","h","e","a","d">>,
         <<"c","o","n","f","i","r","m","e","d">>>>
    \o <<<<"b","o","o","k"," ","a"," ","c","a","l","l">>,
         <<"s","c","h","e","d","u","l","e"," ","d","e","m","o">>,
         <<"s","e","n","d"," ","p","r","o","p","o","s","a","l">>,
         <<"l","e","t","s"," ","t","a","l","k">>,
         <<"c","o","n","t","a","c","t"," ","u","s">>,
         <<"r","e","a","c","h"," ","o","u","t">>>>

\* Object.values(SIGNALS.warm): interest, research, timing
SignalsWarm ==
    <<<<"i","n","t","e","r","e","s","t","e","d">>,
         <<"l","o","o","k","i","n","g"," ","f","o","r">>,
         <<"s","e","e","k","i","n","g">>,
         <<"s","e","a","r","c","h","i","n","g"," ","f","o","r">>,
         <<"c","o","n","s","i","d","e","r","i","n","g">>,
         <<"e","v","a","l","u","a","t","i","n","g">>,
         <<"r","e","v","i","e","w","i","n","g"," ","o","p","t","i","o","n","s">>>>
    \o <<<<"c","o","m","p","a","r","i","n","g">>,
         <<"r","e","s","e","a","r","c","h">>,
         <<"e","x","p","l","o","r","e">>,
         <<"l","e","a","r","n"," ","m","o","r","e">>,
         <<"g","e","t"," ","q","u","o","t","e">>,
         <<"p","r","i","c","i","n","g">>,
         <<"c","o","s","t">>,
         <<"h","o","w"," ","m","u","c","h">>>>
    \o <<<<"n","e","x","t"," ","m","o","n","t","h">>,
         <<"n","e","x","t"," ","q","u","a","r","t","e","r">>,
         <<"s","o","o","n">>,
         <<"u","p","c","o","m","i","n","g">>,
         <<"p","l","a","n","n","i","n","g"," ","t","o">>,
         <<"t","h","i","n","k","i","n","g"," ","a","b","o","u","t">>,
         <<"m","i","g","h","t"," ","n","e","e","d">>>>

\* Object.values(SIGNALS.cold): vague, future
SignalsCold ==
    <<<<"m","a","y","b","e">>,
         <<"p","o","s","s","i","b","l","y">>,
         <<"n","o","t"," ","s","u","r","e">>,
         <<"j","u","s","t"," ","l","o","o","k","i","n","g">>,
         <<"c","u","r","i","o","u","s">>,
         <<"i","n","f","o","r","m","a","t","i","o","n">>,
         <<"g","e","n","e","r","a","l"," ","i","n","q","u","i","r","y">>>>
    \o <<<<"s","o","m","e","d","a","y">>,
         <<"e","v","e","n","t","u","a","l","l","y">>,
         <<"i","n"," ","t","h","e"," ","f","u","t","u","r","e">>,
         <<"n","o","t"," ","n","o","w">>,
         <<"l","a","t","e","r">>,
         <<"n","e","x","t"," ","y","e","a","r">>>>

DigitOrComma == Digits \cup {","}

\* /\$[\d,]+(?:k|K|\s*thousand)?/
BudgetPattern1 ==
    Cat(<<Lit(<<"$">>), Plus(OneOf(DigitOrComma)),
          Opt(Alt(<<Lit(<<"k">>), Lit(<<"K">>), Cat(<<Star(OneOf(WhiteSpace)), Lit(<<"t","h","o","u","s","a","n","d">>)>>)>>))>>)

\* /\$[\d,]+(?:m|M|\s*million)?/
BudgetPattern2 ==
    Cat(<<Lit(<<"$">>), Plus(OneOf(DigitOrComma)),
          Opt(Alt(<<Lit(<<"m">>), Lit(<<"M">>), Cat(<<Star(OneOf(WhiteSpace)), Lit(<<"m","i","l","l","i","o","n">>)>>)>>))>>)

\* /\$\d+(?:,\d{3})*(?:\.\d{2})?/
BudgetPattern3 ==
    Cat(<<Lit(<<"$">>), Plus(OneOf(Digits)),
          Star(Cat(<<Lit(<<",">>), OneOf(Digits), OneOf(Digits), OneOf(Digits)>>)),
          Opt(Cat(<<Lit(<<".">>), OneOf(Digits), OneOf(Digits)>>))>>)

\* /\bdollar\s+budget\b/i
BudgetPattern4 ==
    Cat(<<WordB, Lit(<<"d","o","l","l","a","r">>), Plus(OneOf(WhiteSpace)), Lit(<<"b","u","d","g","e","t">>), WordB>>)

\* /\bbudget\s+of\s+\$?\d+/i
BudgetPattern5 ==
    Cat(<<WordB, Lit(<<"b","u","d","g","e","t">>), Plus(OneOf(WhiteSpace)), Lit(<<"o","f">>), Plus(OneOf(WhiteSpace)),
          Opt(Lit(<<"$">>)), Plus(OneOf(Digits))>>)

\* the patterns with their i flag
budgetPatterns ==
    <<[re |-> BudgetPattern1, ci |-> FALSE], [re |-> BudgetPattern2, ci |-> FALSE],
      [re |-> BudgetPattern3, ci |-> FALSE], [re |-> BudgetPattern4, ci |-> TRUE],
      [re |-> BudgetPattern5, ci |-> TRUE]>>

\* /\b(asap|urgent|immediately|this week|today)\b/i
UrgencyPattern1 ==
    Cat(<<WordB, Alt(<<Lit(<<"a","s","a","p">>), Lit(<<"u","r","g","e","n","t">>), Lit(<<"i","m","m","e","d","i","a","t","e","l","y">>), Lit(<<"t","h","i","s"," ","w","e","e","k">>), Lit(<<"t","o","d","a","y">>)>>), WordB>>)

\* /\b(\d+\s*days?)\b/i
UrgencyPattern2 ==
    Cat(<<WordB, Plus(OneOf(Digits)), Star(OneOf(WhiteSpace)), Lit(<<"d","a","y">>), Opt(Lit(<<"s">>)), WordB>>)

\* /\bdeadline\b/i
UrgencyPattern3 == Cat(<<WordB, Lit(<<"d","e","a","d","l","i","n","e">>), WordB>>)

\* /\bhiring\s+now\b/i
UrgencyPattern4 == Cat(<<WordB, Lit(<<"h","i","r","i","n","g">>), Plus(OneOf(WhiteSpace)), Lit(<<"n","o","w">>), WordB>>)

urgencyPatterns ==
    <<[re |-> UrgencyPattern1, ci |-> TRUE], [re |-> UrgencyPattern2, ci |-> TRUE],
      [re |-> UrgencyPattern3, ci |-> TRUE], [re |-> UrgencyPattern4, ci |-> TRUE]>>

\* the keywords of list whose lower-cased form is included in lower, in list order
MatchedSignals(list, lower) ==
    SelectSeq(list, LAMBDA kw : includes(lower, toLowerCase(kw)))

RECURSIVE FirstPatternMatchFrom(_, _, _)
FirstPatternMatchFrom(patterns, k, text) ==
    IF k > Len(patterns) THEN NoMatch
    ELSE LET match == Exec(patterns[k].re, text, patterns[k].ci)
         IN  IF match.found THEN match ELSE FirstPatternMatchFrom(patterns, k + 1, text)

\* for (const pattern of patterns) { match = text.match(pattern); if (match) ... break; }
FirstPatternMatch(patterns, text) == FirstPatternMatchFrom(patterns, 1, text)

\* Math.round of an integer
MathRound(n) == n

HotWeight == 3
BudgetBonus == 2
HotThreshold == 6
WarmThreshold == 2

enhancedRuleBasedScoring(text) ==
    LET lower == toLowerCase(text)
        hotMatched == MatchedSignals(SignalsHot, lower)
        warmMatched == MatchedSignals(SignalsWarm, lower)
        coldMatched == MatchedSignals(SignalsCold, lower)
        matchedSignals == hotMatched \o warmMatched
        budget == FirstPatternMatch(budgetPatterns, text)
        urgency == FirstPatternMatch(urgencyPatterns, text)
        hotScore == HotWeight * Len(hotMatched) + (IF budget.found THEN BudgetBonus ELSE 0)
        warmScore == Len(warmMatched)
        coldScore == Len(coldMatched)
        totalScore == hotScore + warmScore - coldScore
        score == IF totalScore >= HotThreshold THEN "hot"
                 ELSE IF totalScore >= WarmThreshold THEN "warm" ELSE "cold"
        confidence ==
            IF totalScore >= HotThreshold THEN Min(85 + (totalScore - 6) * 2, 98)
            ELSE IF totalScore >= WarmThreshold THEN Min(70 + totalScore * 3, 85)
            ELSE Max(40, 60 - coldScore * 5)
        reason ==
            IF totalScore >= HotThreshold THEN
                (IF Len(matchedSignals) > 0
                 THEN [text |-> "Strong buying signals detected: ", list |-> Slice(matchedSignals, 3)]
                 ELSE [text |-> "Multiple high-intent indicators present", list |-> <<>>])
            ELSE IF totalScore >= WarmThreshold THEN
                (IF Len(matchedSignals) > 0
                 THEN [text |-> "Moderate interest: ", list |-> Slice(matchedSignals, 2)]
                 ELSE [text |-> "Some buying signals detected", list |-> <<>>])
            ELSE
                (IF coldScore > 0
                 THEN [text |-> "Low intent signals, vague or future timeline", list |-> <<>>]
                 ELSE [text |-> "No strong buying signals detected", list |-> <<>>])
    IN  [kind |-> "scored",
         score |-> score,
         reason |-> reason,
         confidence |-> MathRound(confidence),
         budgetSignal |-> IF budget.found THEN JsStr(budget.text) ELSE JsNull,
         urgencySignal |-> IF urgency.found THEN JsStr(urgency.text) ELSE JsNull,
         method |-> "rule-based",
         signals |-> Slice(matchedSignals, 5),
         scoreDetails |-> [hotScore |-> hotScore, warmScore |-> warmScore,
                           coldScore |-> coldScore, totalScore |-> totalScore]]

(***************************************************************************)
(* services/aiScorer.js: scoreLead and parseAIResponse                     *)
(***************************************************************************)
\* the character at offset i, "" past the end
CharAt(s, i) == IF i >= 0 /\ i < Len(s) THEN s[i + 1] ELSE ""

\* the offset of the first character at or after offset i that is not white space
SkipWs(s, i) == Head(ClassRunEnds(OneOf(WhiteSpace), s, i))

ParseFail == [ok |-> FALSE]

\* JSON string at offset i: no escape sequences
JsonString(s, i) ==
    IF CharAt(s, i) # "\"" THEN ParseFail
    ELSE LET close == Head(ClassRunEnds(NoneOf({"\"", "\\"}), s, i + 1))
         IN  IF CharAt(s, close) = "\""
             THEN [ok |-> TRUE, value |-> JsStr(substring(s, i + 1, close)), next |-> close + 1]
             ELSE ParseFail

DigitValue(c) == CHOOSE d \in 0..9 : <<"0","1","2","3","4","5","6","7","8","9">>[d + 1] = c

RECURSIVE DecimalValue(_)
DecimalValue(ds) ==
    IF ds = <<>> THEN 0
    ELSE 10 * DecimalValue(SubSeq(ds, 1, Len(ds) - 1)) + DigitValue(ds[Len(ds)])

\* JSON number at offset i: a non-negative integer without leading zero
JsonNumber(s, i) ==
    LET end == Head(ClassRunEnds(OneOf(Digits), s, i))
        ds == substring(s, i, end)
    IN  IF end = i \/ (Len(ds) > 1 /\ ds[1] = "0") THEN ParseFail
        ELSE [ok |-> TRUE, value |-> JsNum(DecimalValue(ds)), next |-> end]

\* JSON literal at offset i
JsonLiteral(s, i) ==
    IF OccursAt(s, <<"n","u","l","l">>, i) THEN [ok |-> TRUE, value |-> JsNull, next |-> i + 4]
    ELSE IF OccursAt(s, <<"t","r","u","e">>, i) THEN [ok |-> TRUE, value |-> JsBool(TRUE), next |-> i + 4]
    ELSE IF OccursAt(s, <<"f","a","l","s","e">>, i) THEN [ok |-> TRUE, value |-> JsBool(FALSE), next |-> i + 5]
    ELSE ParseFail

JsonValue(s, i) ==
    IF CharAt(s, i) = "\"" THEN JsonString(s, i)
    ELSE IF CharAt(s, i) \in Digits THEN JsonNumber(s, i)
    ELSE JsonLiteral(s, i)

\* obj with the member name: value added or replaced
WithMember(obj, name, value) ==
    [k \in DOMAIN obj \cup {name} |-> IF k = name THEN value ELSE obj[k]]

\* the members of an object from offset i to its closing brace; obj holds the members
\* read so far.  One operator per position: before the key, after the key, after the
\* colon, after the value
RECURSIVE JsonMembers(_, _, _), MemberKey(_, _, _), MemberColon(_, _, _, _),
          MemberValue(_, _, _, _), MemberNext(_, _, _)
JsonMembers(s, i, obj) == MemberKey(s, obj, JsonString(s, SkipWs(s, i)))

MemberKey(s, obj, key) ==
    IF ~key.ok THEN ParseFail
    ELSE MemberColon(s, obj, key.value.val, SkipWs(s, key.next))

MemberColon(s, obj, name, colon) ==
    IF CharAt(s, colon) # ":" THEN ParseFail
    ELSE MemberValue(s, obj, name, JsonValue(s, SkipWs(s, colon + 1)))

MemberValue(s, obj, name, v) ==
    IF ~v.ok THEN ParseFail
    ELSE MemberNext(s, WithMember(obj, name, v.value), SkipWs(s, v.next))

MemberNext(s, members, after) ==
    IF CharAt(s, after) = "," THEN JsonMembers(s, after + 1, members)
    ELSE IF CharAt(s, after) = "}" THEN [ok |-> TRUE, value |-> members, next |-> after + 1]
    ELSE ParseFail

\* the object without members
EmptyObject == [k \in {} |-> JsNull]

\* the members from the offset after the opening brace and white space
ObjectBody(s, first) ==
    IF CharAt(s, first) = "}" THEN [ok |-> TRUE, value |-> EmptyObject, next |-> first + 1]
    ELSE JsonMembers(s, first, EmptyObject)

\* only white space may follow the object
ObjectEnd(s, body) ==
    IF body.ok /\ SkipWs(s, body.next) = Len(s) THEN [ok |-> TRUE, value |-> body.value]
    ELSE ParseFail

ObjectAt(s, open) ==
    IF CharAt(s, open) # "{" THEN ParseFail
    ELSE ObjectEnd(s, ObjectBody(s, SkipWs(s, open + 1)))

\* JSON.parse of a text holding one flat object (members: strings, integers, null, true, false);
\* ok is FALSE where JSON.parse throws SyntaxError
JSONparse(s) == ObjectAt(s, SkipWs(s, 0))

\* obj[name], undefined for a missing property
Prop(obj, name) == IF name \in DOMAIN obj THEN obj[name] ELSE JsUndefined

\* /\{[\s\S]*\}/
JsonObjectPattern == Cat(<<Lit(<<"{">>), Star(NoneOf({})), Lit(<<"}">>)>>)

SyntaxError == [kind |-> "throw", error |-> "SyntaxError"]

\* no return statement was reached
NoReturn == [kind |-> "none"]

\* parsed.score?.toLowerCase(): undefined for null and undefined
LoweredScore(score) ==
    IF score.type \in {"null", "undefined"} THEN JsUndefined ELSE JsStr(toLowerCase(score.val))

\* a || b
JsOr(a, b) == IF Falsy(a) THEN b ELSE a

\* the object parseAIResponse returns for the parsed answer; toLowerCase of a score
\* that is neither a string nor null nor undefined throws
AIResult(parsed) ==
    IF Prop(parsed, <<"s","c","o","r","e">>).type \notin {"string", "null", "undefined"} THEN TypeError
    ELSE [kind |-> "ai",
          score |-> JsOr(LoweredScore(Prop(parsed, <<"s","c","o","r","e">>)), JsStr(<<"w","a","r","m">>)),
          reason |-> JsOr(Prop(parsed, <<"r","e","a","s","o","n">>), JsStr(<<"A","I"," ","a","n","a","l","y","s","i","s">>)),
          confidence |-> JsOr(Prop(parsed, <<"c","o","n","f","i","d","e","n","c","e">>), JsNum(70)),
          budgetSignal |-> Prop(parsed, <<"b","u","d","g","e","t","S","i","g","n","a","l">>),
          urgencySignal |-> Prop(parsed, <<"u","r","g","e","n","c","y","S","i","g","n","a","l">>)]

\* JSON.parse(jsonMatch[0]) and the returned object
ParsedAnswer(parsed) == IF parsed.ok THEN AIResult(parsed.value) ELSE SyntaxError

\* the try block of parseAIResponse on a string: its return value, an exception, or
\* neither when the pattern does not match
MatchedAnswer(jsonMatch) ==
    IF jsonMatch.found THEN ParsedAnswer(JSONparse(jsonMatch.text)) ELSE NoReturn

\* the catch block and the last line of parseAIResponse
OrScoreContent(tried, content) ==
    IF tried.kind = "ai" THEN tried ELSE enhancedRuleBasedScoring(content)

\* parseAIResponse(content): the exceptions of match, JSON.parse and toLowerCase are caught
\* and lead to the rule-based scoring of content, which throws when content is not a string
parseAIResponse(content) ==
    IF ~IsString(content) THEN TypeError
    ELSE OrScoreContent(MatchedAnswer(Exec(JsonObjectPattern, content.val, FALSE)), content.val)

\* the keys of PROVIDERS
ProviderRule == <<"r","u","l","e">>
ProviderGroq == <<"g","r","o","q">>
ProviderTogether == <<"t","o","g","e","t","h","e","r">>
ProviderOpenAI == <<"o","p","e","n","a","i">>
ProviderLocal == <<"l","o","c","a","l">>
ProviderNames == {ProviderRule, ProviderGroq, ProviderTogether, ProviderOpenAI, ProviderLocal}

\* PROVIDERS[provider].baseURL + '/chat/completions'; LOCAL_LLM_URL is not set
GroqURL == "https://api.groq.com/openai/v1/chat/completions"
TogetherURL == "https://api.together.xyz/v1/chat/completions"
LocalURL == "http://localhost:11434/v1/chat/completions"
\* the endpoint of the OpenAI client
OpenAIURL == "openai.chat.completions.create"

\* const openai = process.env.OPENAI_API_KEY ? new OpenAI(...) : null
openai(e) == ~Falsy(e.OPENAI_API_KEY)

\* process.env.LLM_PROVIDER || 'rule'
DEFAULT_PROVIDER(e) == IF Falsy(e.LLM_PROVIDER) THEN JsStr(ProviderRule) ELSE e.LLM_PROVIDER

\* the provider parameter with its default value
ProviderOf(e, provider) == IF provider = JsUndefined THEN DEFAULT_PROVIDER(e) ELSE provider

RuleBased(leadText) ==
    [pc |-> "resolved", requests |-> <<>>, result |-> enhancedRuleBasedScoring(leadText)]

\* the promise of a call that has not settled
Pending == [kind |-> "pending"]

Requested(url, key) ==
    [pc |-> "awaiting", requests |-> <<[url |-> url, authorization |-> key]>>, result |-> Pending]

\* scoreLead with every provider's request sent whether or not its key is configured
scoreLeadStartKeyless(e, leadText, provider) ==
    LET p == ProviderOf(e, provider)
    IN  IF p = JsStr(ProviderRule) THEN RuleBased(leadText)
        ELSE IF ~IsString(p) \/ p.val \notin ProviderNames THEN RuleBased(leadText)
        ELSE IF p.val = ProviderGroq THEN Requested(GroqURL, e.GROQ_API_KEY)
        ELSE IF p.val = ProviderTogether THEN Requested(TogetherURL, e.TOGETHER_API_KEY)
        ELSE IF p.val = ProviderOpenAI THEN Requested(OpenAIURL, e.OPENAI_API_KEY)
        ELSE Requested(LocalURL, JsUndefined)

\* scoreLead up to its first await: the rule-based result at once, or a request sent
scoreLeadStart(e, leadText, provider) ==
    LET p == ProviderOf(e, provider)
    IN  IF p = JsStr(ProviderRule) THEN RuleBased(leadText)
        ELSE IF ~IsString(p) \/ p.val \notin ProviderNames THEN RuleBased(leadText)
        ELSE IF p.val = ProviderGroq /\ ~Falsy(e.GROQ_API_KEY)
        THEN Requested(GroqURL, e.GROQ_API_KEY)
        ELSE IF p.val = ProviderTogether /\ ~Falsy(e.TOGETHER_API_KEY)
        THEN Requested(TogetherURL, e.TOGETHER_API_KEY)
        ELSE IF p.val = ProviderOpenAI /\ openai(e)
        THEN Requested(OpenAIURL, e.OPENAI_API_KEY)
        ELSE IF p.val = ProviderLocal THEN Requested(LocalURL, JsUndefined)
        ELSE RuleBased(leadText)

\* what the try block of scoreLead does with the awaited response: a rejection and a
\* response without choices[0] throw, otherwise the value of parseAIResponse
Answered(response) ==
    IF response.kind = "error" \/ response.choices = <<>> THEN TypeError
    ELSE parseAIResponse(response.choices[1])

\* the catch block of scoreLead
OrScoreLead(outcome, leadText) ==
    IF outcome.kind = "throw" THEN enhancedRuleBasedScoring(leadText) ELSE outcome

\* scoreLead after the await
scoreLeadSettle(leadText, response) == OrScoreLead(Answered(response), leadText)

(***************************************************************************)
hotSignals ==
    <<<<"u","r","g","e","n","t">>,
         <<"a","s","a","p">>,
         <<"i","m","m","e","d","i","a","t","e","l","y">>,
         <<"t","h","i","s"," ","w","e","e","k">>,
         <<"t","o","d","a","y">>,
         <<"h","i","r","i","n","g"," ","n","o","w">>,
         <<"s","t","a","r","t"," ","a","s","a","p">>,
         <<"$","5","0","k">>,
         <<"$","1","0","0","k">>,
         <<"$","5","0","0","k">>,
         <<"b","u","d","g","e","t"," ","a","p","p","r","o","v","e","d">>,
         <<"s","e","r","i","e","s"," ","a">>,
         <<"s","e","r","i","e","s"," ","b">>,
         <<"d","e","c","i","s","i","o","n"," ","m","a","d","e">>>>

warmSignals ==
    <<<<"i","n","t","e","r","e","s","t","e","d">>,
         <<"l","o","o","k","i","n","g"," ","f","o","r">>,
         <<"s","e","e","k","i","n","g">>,
         <<"c","o","n","s","i","d","e","r","i","n","g">>,
         <<"e","v","a","l","u","a","t","i","o","n">>,
         <<"c","o","m","p","a","r","i","n","g">>,
         <<"q","u","o","t","e">>,
         <<"p","r","o","p","o","s","a","l">>>>

\* /\$[\d,]+(?:k|K)?/
EdgeBudgetPattern ==
    Cat(<<Lit(<<"$">>), Plus(OneOf(DigitOrComma)), Opt(Alt(<<Lit(<<"k">>), Lit(<<"K">>)>>))>>)

\* hotSignals.filter(s => lower.includes(s)).length
CountIncluded(list, lower) == Len(SelectSeq(list, LAMBDA kw : includes(lower, kw)))

\* scoreLead with one warm keyword enough for warm
EdgeScoreLeadAnyWarm(text) ==
    LET lower == toLowerCase(text)
        hotCount == CountIncluded(hotSignals, lower)
        warmCount == CountIncluded(warmSignals, lower)
    IN  IF hotCount >= 2
        THEN [kind |-> "scored", score |-> "hot", confidence |-> 90, reason |-> "Strong buying signals detected"]
        ELSE IF hotCount >= 1 \/ warmCount >= 1
        THEN [kind |-> "scored", score |-> "warm", confidence |-> 75, reason |-> "Moderate interest detected"]
        ELSE [kind |-> "scored", score |-> "cold", confidence |-> 50, reason |-> "No strong signals"]

\* scoreLead(text) of the edge function; budgetMatch is computed and not used
EdgeScoreLead(text) ==
    LET lower == toLowerCase(text)
        hotCount == CountIncluded(hotSignals, lower)
        warmCount == CountIncluded(warmSignals, lower)
        budgetMatch == Exec(EdgeBudgetPattern, text, FALSE)
    IN  IF hotCount >= 2
        THEN [kind |-> "scored", score |-> "hot", confidence |-> 90, reason |-> "Strong buying signals detected"]
        ELSE IF hotCount >= 1 \/ warmCount >= 2
        THEN [kind |-> "scored", score |-> "warm", confidence |-> 75, reason |-> "Moderate interest detected"]
        ELSE [kind |-> "scored", score |-> "cold", confidence |-> 50, reason |-> "No strong signals"]

(***************************************************************************)
(* worker/leadWorker.js: scoreLead                                         *)
(***************************************************************************)
\* /'budget', 'spend', 'investment', '$', 'k', 'monthly', 'ad spend']/i: one pattern,
\* whose $ is the end-of-input assertion
WorkerBudgetPatterns ==
    <<Cat(<<Lit(<<"'","b","u","d","g","e","t","'",","," ","'","s","p","e","n","d","'",","," ","'","i","n","v","e","s","t","m","e","n","t","'",","," ","'">>), EndOfInput,
            Lit(<<"'",","," ","'","k","'",","," ","'","m","o","n","t","h","l","y","'",","," ","'","a","d"," ","s","p","e","n","d","'","]">>)>>)>>

\* /asap/i, /urgent/i, /immediately/i, /this week/i, /right now/i
WorkerUrgencyPatterns ==
    <<Lit(<<"a","s","a","p">>), Lit(<<"u","r","g","e","n","t">>), Lit(<<"i","m","m","e","d","i","a","t","e","l","y">>), Lit(<<"t","h","i","s"," ","w","e","e","k">>),
      Lit(<<"r","i","g","h","t"," ","n","o","w">>)>>

platformSignals ==
    <<<<"M","e","t","a","/","F","a","c","e","b","o","o","k"," ","A","d","s">>, <<"G","o","o","g","l","e"," ","A","d","s">>, <<"S","h","o","p","i","f","y">>, <<"P","P","C">>, <<"P","e","r","f","o","r","m","a","n","c","e"," ","f","o","c","u","s">>>>

\* patterns.some(p => p.test(text))
SomeTest(patterns, text) == \E k \in 1..Len(patterns) : Test(patterns[k], text, TRUE)

\* signals.includes(name)
HasSignal(signals, name) == \E k \in 1..Len(signals) : signals[k] = name

\* `${lead.title || ''} ${lead.text || ''}`.toLowerCase()
WorkerLeadText(lead) ==
    toLowerCase((IF Falsy(lead.title) THEN <<>> ELSE lead.title.val) \o <<" ">>
                    \o (IF Falsy(lead.text) THEN <<>> ELSE lead.text.val))

\* scoreLead with the budget points given for any of the listed terms
WorkerScoreLeadBudgetTerms(lead) ==
    LET text == WorkerLeadText(lead)
        scorePoints ==
            (IF \E t \in {<<"b","u","d","g","e","t">>, <<"s","p","e","n","d">>, <<"i","n","v","e","s","t","m","e","n","t">>, <<"$">>, <<"k">>, <<"m","o","n","t","h","l","y">>} :
                    includes(text, t) THEN 2 ELSE 0)
            + (IF SomeTest(WorkerUrgencyPatterns, text) THEN 2 ELSE 0)
    IN  IF scorePoints >= 4 THEN "hot" ELSE IF scorePoints >= 2 THEN "warm" ELSE "cold"

\* scoreLead(lead) of the worker
WorkerScoreLead(lead) ==
    LET signals == lead.signals
        text == WorkerLeadText(lead)
        hasPlatformSignal ==
            \E k \in 1..Len(signals), j \in 1..Len(platformSignals) :
                includes(toLowerCase(signals[k]), toLowerCase(platformSignals[j]))
        scorePoints ==
            (IF SomeTest(WorkerBudgetPatterns, text) THEN 2 ELSE 0)
            + (IF SomeTest(WorkerUrgencyPatterns, text) THEN 2 ELSE 0)
            + (IF hasPlatformSignal THEN 1 ELSE 0)
            + (IF HasSignal(signals, <<"S","t","a","r","t","u","p">>) THEN 1 ELSE 0)
            + (IF HasSignal(signals, <<"S","a","a","S">>) THEN 1 ELSE 0)
            + (IF HasSignal(signals, <<"E","-","c","o","m","m","e","r","c","e">>) THEN 1 ELSE 0)
    IN  IF scorePoints >= 4 THEN "hot" ELSE IF scorePoints >= 2 THEN "warm" ELSE "cold"

(***************************************************************************)
(* Inputs: lexicons, detector configurations and texts                     *)
(***************************************************************************)
MaxScale == 2
MaxMinMatches == 2
MaxWords == 2
SmallWindow == 3

\* entries of the default lexicon used to build custom lexicons
SampleKeywords ==
    <<
    KW(<<"t","i","r","e","d"," ","o","f">>, 4, "pain"),
    KW(<<"b","u","g","g","y">>, 2, "pain"),
    KW(<<"s","w","i","t","c","h"," ","f","r","o","m">>, 5, "switching"),
    KW(<<"n","e","x","t"," ","m","o","n","t","h">>, 2, "timeline"),
    KW(<<"n","o","t"," ","r","e","n","e","w","i","n","g">>, 5, "churn"),
    KW(<<"a","l","t","e","r","n","a","t","i","v","e"," ","t","o">>, 3, "alternative"),
    KW(<<"v","s">>, 2, "comparison")
    >>

\* the first k sample entries, their weights multiplied by scale
Lexicon(k, scale) ==
    [i \in 1..k |->
        KW(SampleKeywords[i].phrase, SampleKeywords[i].weight * scale, SampleKeywords[i].category)]

Lexicons == {Lexicon(k, p) : k \in 0..Len(SampleKeywords), p \in 1..MaxScale}

\* config objects passed to the constructor; <<>> is {} (every option undefined)
Configs ==
    {<<>>}
    \cup {[keywords |-> l, caseSensitive |-> cs, minKeywordMatches |-> m] :
            l \in Lexicons, cs \in BOOLEAN, m \in 0..MaxMinMatches}
    \cup {[keywords |-> l, contextWindow |-> w] : l \in Lexicons, w \in {0, SmallWindow}}

\* config objects that set the keywords only
PlainConfigs == {<<>>} \cup {[keywords |-> l] : l \in Lexicons}

\* the fragments texts are built from
TextWords ==
    {<<"S","w","i","t","c","h"," ","f","r","o","m"," ","X",":"," ","b","u","g","g","y",","," ","T","i","r","e","d"," ","O","f"," ","i","t"," ">>,
     <<"n","o","t"," ","r","e","n","e","w","i","n","g",";"," ","a","l","t","e","r","n","a","t","i","v","e"," ","t","o","?"," ","n","e","x","t"," ","m","o","n","t","h"," ">>,
     <<"b","u","g","g","y">>}

MaxLeadWords == 2

\* "Looking for marketing agency. Budget $50K. Need to start ASAP."
ScenarioC ==
    <<"L","o","o","k","i","n","g"," ","f","o","r"," ","m","a","r","k","e","t","i","n","g"," ","a","g","e","n","c","y","."," ","B","u","d","g","e","t"," ","$","5","0","K","."," ","N","e","e","d"," ","t","o"," ","s","t","a","r","t"," ","A","S","A","P",".">>

\* the fragments lead texts are built from
LeadWords ==
    {ScenarioC,
     <<"U","r","g","e","n","t",":"," ","b","u","d","g","e","t"," ","a","p","p","r","o","v","e","d",","," ","$","1","M"," ","r","a","i","s","e","d"," ","t","o","d","a","y","!"," ">>,
     <<"m","a","y","b","e"," ","s","o","m","e","d","a","y",","," ","n","o","t"," ","s","u","r","e",";"," ","p","o","s","s","i","b","l","y"," ","l","a","t","e","r",","," ","e","v","e","n","t","u","a","l","l","y","."," ">>,
     <<"p","r","i","c","i","n","g"," ","f","o","r"," ","$","2","0",",","0","0","0","?"," ">>,
     <<"A","S","A","P"," ">>}

RECURSIVE Concat(_)
Concat(ws) == IF ws = <<>> THEN <<>> ELSE Head(ws) \o Concat(Tail(ws))

RECURSIVE WordSeqs(_, _)
\* the sequences of at most n words
WordSeqs(words, n) ==
    IF n = 0 THEN {<<>>}
    ELSE WordSeqs(words, n - 1)
            \cup {Append(ws, w) : ws \in {x \in WordSeqs(words, n - 1) : Len(x) = n - 1}, w \in words}

\* "We are switching from CompetitorX, it's been buggy and support is terrible, we need a replacement ASAP"
ScenarioA ==
    <<"W","e"," ","a","r","e"," ","s","w","i","t","c","h","i","n","g"," ","f","r","o","m"," ","C","o","m","p","e","t","i","t","o","r","X",","," ","i","t","'","s"," ","b","e","e","n"," ","b","u","g","g","y"," ","a","n","d"," ","s","u","p","p","o","r","t"," ","i","s"," ","t","e","r","r","i","b","l","e",","," ","w","e"," ","n","e","e","d"," ","a"," ","r","e","p","l","a","c","e","m","e","n","t"," ","A","S","A","P">>

\* string texts: up to MaxWords words, concatenated, and the scenario text
Texts == {JsStr(Concat(ws)) : ws \in WordSeqs(TextWords, MaxWords)} \cup {JsStr(ScenarioA)}

\* values that are not strings
NonStrings == {JsNull, JsUndefined, JsNum(0), JsNum(42), JsObj}

ValidationValues == NonStrings \cup {JsStr(Concat(ws)) : ws \in WordSeqs(TextWords, MaxWords)}

\* the sample entries with the weight of the first or the category of the second left out
MalformedLexicons ==
    {<<[phrase |-> SampleKeywords[1].phrase, category |-> SampleKeywords[1].category]>>
        \o SubSeq(SampleKeywords, 2, 3),
     <<SampleKeywords[1], [phrase |-> SampleKeywords[2].phrase, weight |-> SampleKeywords[2].weight]>>}

ValidationConfigs ==
    {[keywords |-> l, caseSensitive |-> cs] :
        l \in MalformedLexicons \cup {Lexicon(0, 1), Lexicon(3, 1)}, cs \in BOOLEAN}

\* every entry of the lexicon has a weight and a category
WellFormedLexicon(kws) ==
    \A k \in 1..Len(kws) : {"phrase", "weight", "category"} \subseteq DOMAIN kws[k]

IsolationConfigs ==
    {<<>>,
     [keywords |-> Lexicon(2, 1)],
     [keywords |-> Lexicon(6, 1), minKeywordMatches |-> MaxMinMatches, contextWindow |-> SmallWindow],
     [keywords |-> Lexicon(Len(SampleKeywords), MaxScale), caseSensitive |-> TRUE]}

IsolationTexts ==
    {JsStr(Concat(ws)) : ws \in WordSeqs(TextWords, 1)}
    \cup {JsStr(<<"W","e"," ","n","e","e","d"," ","i","t"," ","n","e","x","t"," ","q","u","a","r","t","e","r","."," ","N","o","w"," ","u","s","i","n","g"," ","X",","," ","t","h","e"," ","p","r","o","b","l","e","m"," ","i","s"," ","s","y","n","c","!">>)}

\* lead texts given to the three-tier scorers
LeadTexts == {Concat(ws) : ws \in WordSeqs(LeadWords, MaxLeadWords)}

MaxNegative == 2

\* option values at or below zero
OutOfRange == (0 - MaxNegative)..0

\* config objects whose minKeywordMatches and contextWindow are out of range
OptionConfigs ==
    {[minKeywordMatches |-> m, contextWindow |-> w] : m \in OutOfRange, w \in OutOfRange}
    \cup {[keywords |-> Lexicon(k, 1), minKeywordMatches |-> m, contextWindow |-> w] :
            k \in {3, Len(SampleKeywords)}, m \in OutOfRange, w \in OutOfRange}

MaxExtractWords == 3

\* the sentences the texts of the extraction helpers are built from
ExtractWords ==
    {<<"n","e","e","d"," ","s","y","n","c"," ","s","e","t","t","i","n","g","."," ">>,
     <<"m","i","s","s","i","n","g"," ","a","p","i"," ","o","p","t","i","o","n","."," ">>,
     <<"p","a","i","n",":"," ","s","l","o","w",","," ","c","o","s","t","l","y"," ","n","e","e","d","."," ">>,
     <<"i","s","s","u","e",":"," ","b","u","g","s",","," ","w","i","s","h","!"," ">>}

ExtractTexts == {JsStr(Concat(ws)) : ws \in WordSeqs(ExtractWords, MaxExtractWords)}

MaxHelperWords == 2

\* the fragments the texts of detectStage are built from
StageWords ==
    {<<"W","e"," ","a","r","e"," ","r","e","s","e","a","r","c","h","i","n","g"," ">>,
     <<"n","o","w"," ","u","s","i","n","g"," ","X"," ">>,
     <<"d","e","c","i","d","e","d"," ","t","o"," ">>,
     <<"a"," ","D","e","m","o"," ">>,
     <<"d","e","m","o","n","s","t","r","a","t","i","o","n"," ">>,
     <<"h","e","l","l","o"," ">>,
     <<"c","o","n","s","i","d","e","r","i","n","g",","," ">>}

StageTexts == {JsStr(Concat(ws)) : ws \in WordSeqs(StageWords, MaxHelperWords)}

\* the fragments the texts of detectTimeline are built from
TimelineWords ==
    {<<"A","S","A","P"," ">>,
     <<"w","i","t","h","i","n"," ","a"," ","w","e","e","k"," ">>,
     <<"E","n","d"," ","o","f"," ","m","o","n","t","h"," ">>,
     <<"n","e","x","t"," ","m","o","n","t","h"," ">>,
     <<"N","e","x","t"," ","Q","u","a","r","t","e","r"," ">>,
     <<"t","h","i","s"," ","y","e","a","r"," ">>,
     <<"s","i","x"," ","m","o","n","t","h","s"," ">>,
     <<"a","n","n","u","a","l"," ">>,
     <<"h","e","l","l","o"," ">>}

TimelineTexts == {JsStr(Concat(ws)) : ws \in WordSeqs(TimelineWords, MaxHelperWords)}

MaxBatch == 3

\* the text property of the items of a batch: two strings, a number and null
BatchValues == {JsStr(ScenarioA), JsStr(<<"b","u","g","g","y">>), JsNum(42), JsNull}

RECURSIVE BatchesOf(_)
\* the lists of n items, the id of an item its position
BatchesOf(n) ==
    IF n = 0 THEN {<<>>}
    ELSE {Append(items, [id |-> n, text |-> v]) : items \in BatchesOf(n - 1), v \in BatchValues}

Batches == UNION {BatchesOf(n) : n \in 0..MaxBatch}

BatchConfigs == {<<>>, [keywords |-> Lexicon(3, 1), caseSensitive |-> TRUE]}

\* process environments services/aiScorer.js is loaded with: each key unset or set
\* (GROQ_API_KEY also set to the empty string), LLM_PROVIDER unset, local or groq
KeyValues == {JsUndefined, JsStr(<<"s","k","-","1">>)}

Envs ==
    [loaded : {TRUE},
     GROQ_API_KEY : KeyValues \cup {JsStr(<<>>)},
     TOGETHER_API_KEY : KeyValues,
     OPENAI_API_KEY : KeyValues,
     LLM_PROVIDER : {JsUndefined, JsStr(ProviderLocal), JsStr(ProviderGroq)}]

\* the provider argument of scoreLead: omitted, a key of PROVIDERS, or another name
ProviderArgs ==
    {JsUndefined} \cup {JsStr(p) : p \in ProviderNames} \cup {JsStr(<<"c","l","a","u","d","e">>)}

\* lead texts: a hot one and a cold one
ProviderLeads == {ScenarioC, <<"n","o","t"," ","s","u","r","e",","," ","m","a","y","b","e"," ","s","o","m","e","d","a","y"," ">>}

\* message contents of a provider's answer
AnswerContents ==
    {JsStr(<<"{","\"","s","c","o","r","e","\"",":","\"","H","o","t","\"",",","\"","r","e","a","s","o","n","\"",":","\"","b","u","d","g","e","t"," ","s","t","a","t","e","d","\"",",","\"","c","o","n","f","i","d","e","n","c","e","\"",":","9","0","}">>),
     JsStr(<<"S","u","r","e",":"," ","{"," ","\"","s","c","o","r","e","\""," ",":"," ","\"","c","o","l","d","\"",","," ","\"","b","u","d","g","e","t","S","i","g","n","a","l","\""," ",":"," ","n","u","l","l"," ","}"," ","o","k">>),
     JsStr(<<"{","\"","c","o","n","f","i","d","e","n","c","e","\"",":","0",",","\"","s","c","o","r","e","\"",":","n","u","l","l","}">>),
     JsStr(<<"{","}">>),
     JsStr(<<"{","s","c","o","r","e",":"," ","h","o","t","}">>),
     JsStr(<<"{","\"","s","c","o","r","e","\"",":","5","}">>),
     JsStr(<<"u","r","g","e","n","t",","," ","b","u","d","g","e","t"," ","a","p","p","r","o","v","e","d">>),
     JsNull}

\* what the await of the request gives: a rejection, or a response whose choices hold
\* at most one message content
Responses ==
    {[kind |-> "error"], [kind |-> "response", choices |-> <<>>]}
    \cup {[kind |-> "response", choices |-> <<c>>] : c \in AnswerContents}

\* scraped leads: a title, a text and the signals the scraper attached
MaxSignals == 2

WorkerTitles == {JsUndefined, JsStr(<<"N","e","e","d"," ","G","o","o","g","l","e"," ","A","d","s"," ","h","e","l","p"," ","A","S","A","P">>), JsStr(<<"B","u","d","g","e","t">>)}

WorkerLeadTexts ==
    {JsUndefined, JsStr(<<"m","o","n","t","h","l","y"," ","a","d"," ","s","p","e","n","d"," ","i","s"," ","$","5","k",","," ","u","r","g","e","n","t">>), JsStr(<<"i","n","v","e","s","t","m","e","n","t"," ","t","h","i","s"," ","w","e","e","k">>),
     JsStr(<<"'","b","u","d","g","e","t","'",","," ","'","s","p","e","n","d","'",","," ","'","i","n","v","e","s","t","m","e","n","t","'",","," ","'">>), JsStr(<<"h","e","l","l","o">>)}

WorkerSignalNames ==
    {<<"S","t","a","r","t","u","p">>, <<"S","a","a","S">>, <<"E","-","c","o","m","m","e","r","c","e">>, <<"g","o","o","g","l","e"," ","a","d","s">>, <<"U","r","g","e","n","t">>}

RECURSIVE SignalLists(_)
SignalLists(n) ==
    IF n = 0 THEN {<<>>}
    ELSE SignalLists(n - 1)
            \cup {Append(l, x) : l \in {m \in SignalLists(n - 1) : Len(m) = n - 1},
                                 x \in WorkerSignalNames}

WorkerLeads ==
    [title : WorkerTitles, text : WorkerLeadTexts, signals : SignalLists(MaxSignals)]

MaxEdgeWords == 3

\* the fragments the texts of the edge function are built from
EdgeWords ==
    {<<"T","o","d","a","y"," ">>,
     <<"S","t","a","r","t"," ","A","S","A","P"," ">>,
     <<"I","n","t","e","r","e","s","t","e","d",","," ">>,
     <<"s","e","e","k","i","n","g"," ","a"," ","Q","u","o","t","e"," ">>,
     <<"h","e","l","l","o"," ","t","h","e","r","e"," ">>,
     <<"f","o","r"," ","$","2","0",",","0","0","0"," ">>,
     <<"$","5","0","K"," ">>}

EdgeTexts == {Concat(ws) : ws \in WordSeqs(EdgeWords, MaxEdgeWords)}

(***************************************************************************)
(* competitor-defector/detector.js and the alert system: the detection     *)
(* pipeline of one user over the tables competitor_reviews,                *)
(* defector_leads, defector_alerts and defector_alert_configs              *)
(***************************************************************************)
MaxReviews == 2
Runs == 1..2

NoRow == [row |-> FALSE]
EmptyTables == [reviews |-> <<>>, leads |-> <<>>, alerts |-> <<>>, config |-> NoRow]
IdleRun == [pc |-> "idle"]

\* this.detector = new DefectionDetector()
PipelineDetector == constructor(<<>>)

\* .from('competitor_reviews').select(...).is('processed_at', null): the ids, in table order
Unprocessed(reviews) == SelectSeq([k \in 1..Len(reviews) |-> k], LAMBDA k : ~reviews[k].processed)

\* the rows of defector_leads with the given review_id
LeadsOf(leads, review_id) == {k \in 1..Len(leads) : leads[k].review_id = review_id}

\* .single(): the row when exactly one row matches, null (0) otherwise
Single(rows) == IF Cardinality(rows) = 1 THEN CHOOSE k \in rows : TRUE ELSE 0

\* analysis.score >= 80 ? 'urgent' : analysis.score >= 60 ? 'high' : 'medium'
Priority(score) == IF score >= 80 THEN "urgent" ELSE IF score >= 60 THEN "high" ELSE "medium"

\* leadData of createDefectorLead
LeadData(review_id, analysis) ==
    [review_id |-> review_id,
     defection_intent_score |-> analysis.score,
     priority |-> Priority(analysis.score)]

\* the object { id } that select('id') returns for an existing lead
ExistingLead(id) == [id |-> id]

\* the row that insert(leadData).select().single() returns
InsertedLead(id, row) == [k \in DOMAIN row \cup {"id"} |-> IF k = "id" THEN id ELSE row[k]]

\* lead.defection_intent_score, undefined (no number) on an object without the property
LeadScore(lead) ==
    IF "defection_intent_score" \in DOMAIN lead THEN lead.defection_intent_score ELSE NaN

\* a < b on numbers; false when an operand is undefined or NaN
JsLess(a, b) == IsNumber(a) /\ IsNumber(b) /\ a < b

\* shouldAlert(lead, config); the configurations set no industry or company size filter
shouldAlert(lead, config) ==
    IF config = NoRow THEN TRUE
    ELSE ~JsLess(LeadScore(lead), config.min_defection_score)

\* getSeverity(score)
getSeverity(score) ==
    IF IsNumber(score) /\ score >= 80 THEN "critical"
    ELSE IF IsNumber(score) /\ score >= 60 THEN "warning"
    ELSE "info"

\* the channels sendNewDefectorAlert posts to; sendEmailAlert returns without
\* sending, the alert system being constructed with no emailService
PostedVia(config) ==
    (IF config # NoRow /\ config.slack_webhook_url THEN <<"slack">> ELSE <<>>)
        \o (IF config # NoRow /\ config.webhook_url THEN <<"webhook">> ELSE <<>>)

\* the run moves to the next fetched review, or is done after the last
Advance(st) ==
    IF st.i < Len(st.reviews) THEN [pc |-> "update", reviews |-> st.reviews, i |-> st.i + 1]
    ELSE [pc |-> "done"]

\* review texts: scores 85, 55 and 20 with the default lexicon
ReviewContents ==
    {<<"s","w","i","t","c","h","i","n","g"," ","f","r","o","m"," ","a","c","m","e",","," ","t","i","r","e","d"," ","o","f"," ","i","t",","," ","b","u","g","g","y">>,
     <<"s","w","i","t","c","h","i","n","g"," ","f","r","o","m"," ","a","c","m","e",","," ","b","u","g","g","y">>,
     <<"w","e"," ","a","r","e"," ","t","i","r","e","d"," ","o","f"," ","a","c","m","e">>}

\* this.detector.analyze(review.review_content) for each of the review texts
ReviewAnalysis == [c \in ReviewContents |-> analyze(PipelineDetector, JsStr(c))]

\* rows of defector_alert_configs
AlertConfigs ==
    {[row |-> TRUE, min_defection_score |-> 70, slack_webhook_url |-> TRUE, webhook_url |-> FALSE],
     [row |-> TRUE, min_defection_score |-> 90, slack_webhook_url |-> FALSE, webhook_url |-> TRUE]}

(***************************************************************************)
(* worker/leadWorker.js: distributeLeads over the User and Lead models     *)
(***************************************************************************)
LeadsLimit == 2
Jobs == 1..2
IdleJob == [pc |-> "idle"]

\* one active user with no lead used, and an empty Lead table; created counts the
\* leads created for the user since the last monthly reset
NewStore ==
    [user |-> [leadsUsedThisMonth |-> 0, leadsLimit |-> LeadsLimit],
     leads |-> <<>>,
     created |-> 0]

\* user.keywords || [...] and user.sourcesConfig || {...}: the user has set neither
DefaultUserKeywords == <<<<"m","a","r","k","e","t","i","n","g"," ","a","g","e","n","c","y">>, <<"g","r","o","w","t","h">>>>
DefaultUserSources == [hackerNews |-> TRUE, reddit |-> TRUE, upwork |-> TRUE]

\* matchesKeywords(lead, keywords); the leads have a title and a text and no intent
matchesKeywords(lead, keywords) ==
    IF Len(keywords) = 0 THEN TRUE
    ELSE LET text == toLowerCase(lead.title \o <<" ">> \o lead.text \o <<" ">>)
         IN  \E k \in 1..Len(keywords) : includes(text, toLowerCase(keywords[k]))

\* s.replace(a, b) for one-character strings: the first occurrence only
ReplaceFirst(s, a, b) ==
    IF \E k \in 1..Len(s) : s[k] = a
    THEN LET first == CHOOSE k \in 1..Len(s) : s[k] = a /\ \A j \in 1..(k - 1) : s[j] # a
         IN  [s EXCEPT ![first] = b]
    ELSE s

\* isSourceEnabled of distributeLeads
IsSourceEnabled(lead, userSources) ==
    LET sourceKey == toLowerCase(ReplaceFirst(lead.source, "-", "_"))
    IN  \/ includes(sourceKey, <<"h","a","c","k","e","r","n","e","w","s">>) /\ userSources.hackerNews
        \/ includes(sourceKey, <<"r","e","d","d","i","t">>) /\ userSources.reddit
        \/ includes(sourceKey, <<"u","p","w","o","r","k">>) /\ userSources.upwork

\* allLeads.filter(...) of distributeLeads
matchingLeads(allLeads) ==
    SelectSeq(allLeads, LAMBDA lead :
        IsSourceEnabled(lead, DefaultUserSources) /\ matchesKeywords(lead, DefaultUserKeywords))

\* leadExists(sourceUrl, userId) on the Lead table
leadExists(leads, sourceUrl) == \E k \in 1..Len(leads) : leads[k].sourceUrl = sourceUrl

\* the job moves to the next matching lead, or leaves the loop after the last
NextLead(st) ==
    IF st.i < Len(st.leads) THEN [st EXCEPT !.pc = "exists", !.i = st.i + 1]
    ELSE [pc |-> "done"]

\* leads the scrapers collect
ScrapedLeads ==
    [a |-> [url |-> "u1", source |-> <<"h","a","c","k","e","r","n","e","w","s">>, title |-> <<"G","r","o","w","t","h"," ","h","i","r","e"," ","w","a","n","t","e","d">>, text |-> <<"r","e","m","o","t","e">>],
     b |-> [url |-> "u2", source |-> <<"r","e","d","d","i","t">>, title |-> <<"N","e","e","d"," ","a"," ","M","a","r","k","e","t","i","n","g"," ","A","g","e","n","c","y">>, text |-> <<>>],
     c |-> [url |-> "u3", source |-> <<"r","e","d","d","i","t">>, title |-> <<"A","d","s"," ","h","e","l","p">>, text |-> <<"f","o","r"," ","g","r","o","w","t","h">>],
     d |-> [url |-> "u4", source |-> <<"t","w","i","t","t","e","r">>, title |-> <<"g","r","o","w","t","h">>, text |-> <<>>],
     e |-> [url |-> "u5", source |-> <<"u","p","w","o","r","k">>, title |-> <<"L","o","g","o"," ","d","e","s","i","g","n">>, text |-> <<>>]]

\* allLeads of a runWorker execution
ScrapedBatches ==
    {<<ScrapedLeads.a, ScrapedLeads.d, ScrapedLeads.b>>,
     <<ScrapedLeads.b, ScrapedLeads.c, ScrapedLeads.e>>,
     <<ScrapedLeads.e>>}

\* the matching leads of each batch
BatchMatches == [b \in ScrapedBatches |-> matchingLeads(b)]

(***************************************************************************)
(* State: the detector instances, the call in progress and its result,     *)
(* the process environment services/aiScorer.js was loaded with, the       *)
(* Supabase tables (db), the detection runs in progress (run), the         *)
(* notifications posted (sent), the worker's User and Lead models (store)  *)
(* and the runWorker executions in progress (job)                          *)
(***************************************************************************)
VARIABLES det, call, result, env, db, run, sent, store, job

vars == <<det, call, result, env, db, run, sent, store, job>>

Instances == 1..2
NoDetector == [constructed |-> FALSE]
NoCall == [op |-> "none"]
NoResult == [kind |-> "none"]
NotLoaded == [loaded |-> FALSE]

Init ==
    /\ det = [i \in Instances |-> NoDetector]
    /\ call = NoCall
    /\ result = NoResult
    /\ env = NotLoaded
    /\ db = EmptyTables
    /\ run = [r \in Runs |-> IdleRun]
    /\ sent = <<>>
    /\ store = NewStore
    /\ job = [j \in Jobs |-> IdleJob]

\* the constructor writing the keywords to a property shared by every instance
ConstructShared(i, config) ==
    /\ call = NoCall
    /\ ~det[i].constructed
    /\ det' = [j \in Instances |->
                IF j = i THEN [constructed |-> TRUE, config |-> config, fields |-> constructor(config)]
                ELSE IF det[j].constructed
                THEN [det[j] EXCEPT !.fields.keywords = constructor(config).keywords]
                ELSE det[j]]
    /\ UNCHANGED <<call, result, env, db, run, sent, store, job>>

\* d = new DefectionDetector(config); config is kept beside the fields it sets
Construct(i, config) ==
    /\ call = NoCall
    /\ ~det[i].constructed
    /\ det' = [det EXCEPT ![i] = [constructed |-> TRUE, config |-> config, fields |-> constructor(config)]]
    /\ UNCHANGED <<call, result, env, db, run, sent, store, job>>

\* d.analyze(text)
Analyze(i, text) ==
    /\ call = NoCall
    /\ det[i].constructed
    /\ call' = [op |-> "analyze", inst |-> i, text |-> text]
    /\ result' = analyze(det[i].fields, text)
    /\ UNCHANGED <<det, env, db, run, sent, store, job>>

\* d.detectTimeline(text)
DetectTimeline(i, text) ==
    /\ call = NoCall
    /\ det[i].constructed
    /\ call' = [op |-> "detectTimeline", inst |-> i, text |-> text]
    /\ result' = [kind |-> "value", value |-> detectTimeline(text.val)]
    /\ UNCHANGED <<det, env, db, run, sent, store, job>>

\* d.detectStage(text)
DetectStage(i, text) ==
    /\ call = NoCall
    /\ det[i].constructed
    /\ call' = [op |-> "detectStage", inst |-> i, text |-> text]
    /\ result' = [kind |-> "value", value |-> detectStage(text.val)]
    /\ UNCHANGED <<det, env, db, run, sent, store, job>>

\* d.extractPainPoints(text)
ExtractPainPoints(i, text) ==
    /\ call = NoCall
    /\ det[i].constructed
    /\ call' = [op |-> "extractPainPoints", inst |-> i, text |-> text]
    /\ result' = [kind |-> "value", value |-> extractPainPoints(text.val)]
    /\ UNCHANGED <<det, env, db, run, sent, store, job>>

\* d.extractDesiredFeatures(text)
ExtractDesiredFeatures(i, text) ==
    /\ call = NoCall
    /\ det[i].constructed
    /\ call' = [op |-> "extractDesiredFeatures", inst |-> i, text |-> text]
    /\ result' = [kind |-> "value", value |-> extractDesiredFeatures(text.val)]
    /\ UNCHANGED <<det, env, db, run, sent, store, job>>

\* d.batchAnalyze(items)
BatchAnalyze(i, items) ==
    /\ call = NoCall
    /\ det[i].constructed
    /\ call' = [op |-> "batchAnalyze", inst |-> i, items |-> items]
    /\ result' = batchAnalyze(det[i].fields, items)
    /\ UNCHANGED <<det, env, db, run, sent, store, job>>

\* require('./services/aiScorer') in a process with environment e
LoadScorer(e) ==
    /\ call = NoCall
    /\ env = NotLoaded
    /\ env' = e
    /\ UNCHANGED <<det, call, result, db, run, sent, store, job>>

\* scoreLead(leadText, provider) of services/aiScorer.js, up to its first await
ScoreLead(leadText, provider) ==
    /\ call = NoCall
    /\ env.loaded
    /\ LET started == scoreLeadStart(env, leadText, provider)
       IN  /\ call' = [op |-> "aiScorer.scoreLead", leadText |-> JsStr(leadText),
                       provider |-> provider, pc |-> started.pc,
                       requests |-> started.requests]
           /\ result' = started.result
    /\ UNCHANGED <<det, env, db, run, sent, store, job>>

\* the awaited request settles and scoreLead runs to its return
ProviderResponds(response) ==
    /\ call.op = "aiScorer.scoreLead"
    /\ call.pc = "awaiting"
    /\ call' = [call EXCEPT !.pc = "resolved"]
    /\ result' = scoreLeadSettle(call.leadText.val, response)
    /\ UNCHANGED <<det, env, db, run, sent, store, job>>

\* scoreLead(lead) of worker/leadWorker.js
WorkerScore(lead) ==
    /\ call = NoCall
    /\ call' = [op |-> "worker.scoreLead", lead |-> lead]
    /\ result' = [kind |-> "value", value |-> WorkerScoreLead(lead)]
    /\ UNCHANGED <<det, env, db, run, sent, store, job>>

\* saveReviews(reviews) of a scraper: a new row of competitor_reviews
SaveReview(content) ==
    /\ Len(db.reviews) < MaxReviews
    /\ db' = [db EXCEPT !.reviews = Append(@,
                [content |-> content, processed |-> FALSE, has_defection_signal |-> FALSE])]
    /\ UNCHANGED <<det, call, result, env, run, sent, store, job>>

\* updateAlertConfig(userId, config), before the first detection run
UpdateAlertConfig(config) ==
    /\ db.config = NoRow
    /\ db.leads = <<>> /\ db.alerts = <<>>
    /\ \A r \in Runs : run[r] = IdleRun
    /\ db' = [db EXCEPT !.config = config]
    /\ UNCHANGED <<det, call, result, env, run, sent, store, job>>

\* processUnprocessedReviews(userId): the select of the unprocessed reviews
FetchReviews(r) ==
    /\ run[r].pc = "idle"
    /\ LET ids == Unprocessed(db.reviews)
       IN  run' = [run EXCEPT ![r] =
                IF ids = <<>> THEN [pc |-> "done"]
                ELSE [pc |-> "update", reviews |-> ids, i |-> 1]]
    /\ UNCHANGED <<det, call, result, env, db, sent, store, job>>

\* this.detector.analyze(review.review_content) and the update of the review row
AnalyzeReview(r) ==
    /\ run[r].pc = "update"
    /\ LET st == run[r]
           id == st.reviews[st.i]
           a == ReviewAnalysis[db.reviews[id].content]
       IN  /\ db' = [db EXCEPT !.reviews[id] =
                        [@ EXCEPT !.processed = TRUE, !.has_defection_signal = a.hasDefectionSignal]]
           /\ run' = [run EXCEPT ![r] =
                        IF a.hasDefectionSignal
                        THEN [pc |-> "select", reviews |-> st.reviews, i |-> st.i,
                              analysis |-> [score |-> a.score]]
                        ELSE Advance(st)]
    /\ UNCHANGED <<det, call, result, env, sent, store, job>>

\* createDefectorLead: select('id').eq('review_id', review.id).single()
SelectExisting(r) ==
    /\ run[r].pc = "select"
    /\ LET st == run[r]
           existing == Single(LeadsOf(db.leads, st.reviews[st.i]))
       IN  run' = [run EXCEPT ![r] =
                IF existing # 0
                THEN [pc |-> "alert", reviews |-> st.reviews, i |-> st.i,
                      analysis |-> st.analysis, lead |-> ExistingLead(existing)]
                ELSE [st EXCEPT !.pc = "insert"]]
    /\ UNCHANGED <<det, call, result, env, db, sent, store, job>>

\* createDefectorLead: insert(leadData); an error is thrown and caught by the loop
InsertLead(r, ok) ==
    /\ run[r].pc = "insert"
    /\ LET st == run[r]
           row == LeadData(st.reviews[st.i], st.analysis)
       IN  IF ok
           THEN /\ db' = [db EXCEPT !.leads = Append(@, row)]
                /\ run' = [run EXCEPT ![r] =
                        [pc |-> "alert", reviews |-> st.reviews, i |-> st.i,
                         analysis |-> st.analysis, lead |-> InsertedLead(Len(db.leads) + 1, row)]]
           ELSE /\ run' = [run EXCEPT ![r] = Advance(st)]
                /\ UNCHANGED db
    /\ UNCHANGED <<det, call, result, env, sent, store, job>>

\* sendNewDefectorAlert(lead, review, userId); the alert row is read by no run
SendNewDefectorAlert(r) ==
    /\ run[r].pc = "alert"
    /\ LET st == run[r]
           config == db.config
           saved == shouldAlert(st.lead, config)
       IN  /\ db' = IF saved
                    THEN [db EXCEPT !.alerts = Append(@,
                            [defector_lead_id |-> st.lead.id, alert_type |-> "new_defector",
                             severity |-> getSeverity(LeadScore(st.lead))])]
                    ELSE db
           /\ sent' = IF saved
                      THEN sent \o [k \in 1..Len(PostedVia(config)) |->
                                [defector_lead_id |-> st.lead.id, via |-> PostedVia(config)[k]]]
                      ELSE sent
           /\ run' = [run EXCEPT ![r] =
                        IF st.analysis.score >= 80 THEN [st EXCEPT !.pc = "high"]
                        ELSE Advance(st)]
    /\ UNCHANGED <<det, call, result, env, store, job>>

\* sendHighIntentAlert(lead, review, userId)
SendHighIntentAlert(r) ==
    /\ run[r].pc = "high"
    /\ LET st == run[r]
       IN  /\ db' = [db EXCEPT !.alerts = Append(@,
                            [defector_lead_id |-> st.lead.id, alert_type |-> "high_intent",
                             severity |-> "critical"])]
           /\ run' = [run EXCEPT ![r] = Advance(st)]
    /\ UNCHANGED <<det, call, result, env, sent, store, job>>

\* processUnprocessedReviews returns
FinishRun(r) ==
    /\ run[r].pc = "done"
    /\ run' = [run EXCEPT ![r] = IdleRun]
    /\ UNCHANGED <<det, call, result, env, db, sent, store, job>>

\* runWorker: the scrapers return allLeads, distributeLeads selects the active users
\* below their limit and filters the leads matching the user
FindUsers(j, allLeads) ==
    /\ job[j].pc = "idle"
    /\ LET user == store.user
           leads == BatchMatches[allLeads]
       IN  job' = [job EXCEPT ![j] =
                IF user.leadsUsedThisMonth < user.leadsLimit /\ leads # <<>>
                THEN [pc |-> "exists", leads |-> leads, i |-> 1, user |-> user]
                ELSE [pc |-> "done"]]
    /\ UNCHANGED <<det, call, result, env, db, run, sent, store>>

\* distributeLeads: await leadExists(lead.url, user.id), then the limit check on the
\* user object this execution loaded
CheckLead(j) ==
    /\ job[j].pc = "exists"
    /\ LET st == job[j]
       IN  job' = [job EXCEPT ![j] =
                IF leadExists(store.leads, st.leads[st.i].url) THEN NextLead(st)
                ELSE IF st.user.leadsUsedThisMonth >= st.user.leadsLimit THEN [pc |-> "done"]
                ELSE [st EXCEPT !.pc = "create"]]
    /\ UNCHANGED <<det, call, result, env, db, run, sent, store>>

\* distributeLeads: await Lead.create(leadData), then user.leadsUsedThisMonth += 1;
\* an error is caught and the loop goes on with the next lead
CreateLead(j, ok) ==
    /\ job[j].pc = "create"
    /\ LET st == job[j]
       IN  IF ok
           THEN /\ store' = [store EXCEPT !.leads = Append(@, [sourceUrl |-> st.leads[st.i].url]),
                                          !.created = @ + 1]
                /\ job' = [job EXCEPT ![j] =
                        [st EXCEPT !.pc = "save", !.user.leadsUsedThisMonth = @ + 1]]
           ELSE /\ job' = [job EXCEPT ![j] = NextLead(st)]
                /\ UNCHANGED store
    /\ UNCHANGED <<det, call, result, env, db, run, sent>>

\* distributeLeads: await user.save() writes the counter of the loaded user object
SaveUser(j, ok) ==
    /\ job[j].pc = "save"
    /\ store' = IF ok
                THEN [store EXCEPT !.user.leadsUsedThisMonth = job[j].user.leadsUsedThisMonth]
                ELSE store
    /\ job' = [job EXCEPT ![j] = NextLead(job[j])]
    /\ UNCHANGED <<det, call, result, env, db, run, sent>>

\* distributeLeads and runWorker return
FinishJob(j) ==
    /\ job[j].pc = "done"
    /\ job' = [job EXCEPT ![j] = IdleJob]
    /\ UNCHANGED <<det, call, result, env, db, run, sent, store>>

\* resetMonthlyCounters()
ResetMonthlyCounters ==
    /\ store' = [store EXCEPT !.user.leadsUsedThisMonth = 0, !.created = 0]
    /\ UNCHANGED <<det, call, result, env, db, run, sent, job>>

\* enhancedRuleBasedScoring(text)
RuleScore(text) ==
    /\ call = NoCall
    /\ call' = [op |-> "enhancedRuleBasedScoring", text |-> JsStr(text)]
    /\ result' = enhancedRuleBasedScoring(text)
    /\ UNCHANGED <<det, env, db, run, sent, store, job>>

\* scoreLead(text) of the edge function
EdgeScore(text) ==
    /\ call = NoCall
    /\ call' = [op |-> "scoreLead", text |-> JsStr(text)]
    /\ result' = EdgeScoreLead(text)
    /\ UNCHANGED <<det, env, db, run, sent, store, job>>

\* the call is an async one whose promise has not settled
Awaiting == call.op = "aiScorer.scoreLead" /\ call.pc = "awaiting"

\* the caller takes the returned value
Return ==
    /\ call # NoCall
    /\ ~Awaiting
    /\ call' = NoCall
    /\ result' = NoResult
    /\ UNCHANGED <<det, env, db, run, sent, store, job>>

\* the detector: every configuration, every text
Next ==
    \/ \E c \in Configs : Construct(1, c)
    \/ \E t \in Texts : Analyze(1, t)
    \/ Return

Spec == Init /\ [][Next]_vars

\* any JavaScript value as the text, and lexicons with entries that lack a property
NextValidation ==
    \/ \E c \in ValidationConfigs : Construct(1, c)
    \/ \E v \in ValidationValues : Analyze(1, v)
    \/ Return

SpecValidation == Init /\ [][NextValidation]_vars

\* two detectors with lexicons of their own, and every method of the class
NextIsolation ==
    \/ \E i \in Instances, c \in IsolationConfigs : Construct(i, c)
    \/ \E i \in Instances, t \in IsolationTexts : Analyze(i, t)
    \/ \E i \in Instances, t \in IsolationTexts : DetectTimeline(i, t)
    \/ \E i \in Instances, t \in IsolationTexts : DetectStage(i, t)
    \/ \E i \in Instances, t \in IsolationTexts : ExtractPainPoints(i, t)
    \/ \E i \in Instances, t \in IsolationTexts : ExtractDesiredFeatures(i, t)
    \/ Return

SpecIsolation == Init /\ [][NextIsolation]_vars

\* the detector with its options left undefined, and the three-tier scorers
NextScoring ==
    \/ \E c \in PlainConfigs : Construct(1, c)
    \/ \E t \in Texts : Analyze(1, t)
    \/ \E t \in LeadTexts : RuleScore(t)
    \/ \E t \in LeadTexts : EdgeScore(t)
    \/ Return

SpecScoring == Init /\ [][NextScoring]_vars


\* the edge function alone
NextEdge ==
    \/ \E t \in EdgeTexts : EdgeScore(t)
    \/ Return

SpecEdge == Init /\ [][NextEdge]_vars

\* the detector built with option values at or below zero
NextOptions ==
    \/ \E c \in OptionConfigs : Construct(1, c)
    \/ \E t \in Texts : Analyze(1, t)
    \/ Return

SpecOptions == Init /\ [][NextOptions]_vars

\* the default detector and its two extraction helpers
NextExtract ==
    \/ Construct(1, <<>>)
    \/ \E t \in ExtractTexts : ExtractPainPoints(1, t)
    \/ \E t \in ExtractTexts : ExtractDesiredFeatures(1, t)
    \/ Return

SpecExtract == Init /\ [][NextExtract]_vars

\* the default detector, detectStage and detectTimeline
NextStage ==
    \/ Construct(1, <<>>)
    \/ \E t \in StageTexts : DetectStage(1, t)
    \/ \E t \in TimelineTexts : DetectTimeline(1, t)
    \/ Return

SpecStage == Init /\ [][NextStage]_vars

\* batches of items, some of them with a text that is not a string
NextBatch ==
    \/ \E c \in BatchConfigs : Construct(1, c)
    \/ \E items \in Batches : BatchAnalyze(1, items)
    \/ Return

SpecBatch == Init /\ [][NextBatch]_vars

\* the worker's scoreLead on every scraped lead
NextWorkerScore ==
    \/ \E lead \in WorkerLeads : WorkerScore(lead)
    \/ Return

SpecWorkerScore == Init /\ [][NextWorkerScore]_vars

\* one step of detection run r
RunStep(r) ==
    \/ FetchReviews(r)
    \/ AnalyzeReview(r)
    \/ SelectExisting(r)
    \/ \E ok \in BOOLEAN : InsertLead(r, ok)
    \/ SendNewDefectorAlert(r)
    \/ SendHighIntentAlert(r)
    \/ FinishRun(r)

\* the detection pipeline: reviews arrive, detection runs of the same user interleave
NextPipeline ==
    \/ \E c \in ReviewContents : SaveReview(c)
    \/ \E c \in AlertConfigs : UpdateAlertConfig(c)
    \/ \E r \in Runs : RunStep(r)

SpecPipeline == Init /\ [][NextPipeline]_vars

\* every started run goes on: each awaited request settles, and an insert that is
\* issued again and again does not fail every time
SpecPipelineFair ==
    /\ Init /\ [][NextPipeline]_vars
    /\ \A r \in Runs : WF_vars(RunStep(r)) /\ SF_vars(InsertLead(r, TRUE))

\* the worker: runWorker executions overlap, the monthly reset runs at any time
NextWorker ==
    \/ \E j \in Jobs, b \in ScrapedBatches : FindUsers(j, b)
    \/ \E j \in Jobs : CheckLead(j)
    \/ \E j \in Jobs, ok \in BOOLEAN : CreateLead(j, ok)
    \/ \E j \in Jobs, ok \in BOOLEAN : SaveUser(j, ok)
    \/ \E j \in Jobs : FinishJob(j)
    \/ ResetMonthlyCounters

SpecWorker == Init /\ [][NextWorker]_vars

\* services/aiScorer.js loaded in every environment, scoreLead with every provider
NextProvider ==
    \/ \E e \in Envs : LoadScorer(e)
    \/ \E t \in ProviderLeads, p \in ProviderArgs : ScoreLead(t, p)
    \/ \E r \in Responses : ProviderResponds(r)
    \/ Return

SpecProvider == Init /\ [][NextProvider]_vars

(***************************************************************************)
(* Properties of DefectionDetector.analyze                                 *)
(***************************************************************************)
\* the call that has returned is analyze on a string
AnalyzeReturned == call.op = "analyze" /\ IsString(call.text)
CallDet == det[call.inst].fields
CallText == call.text.val

RECURSIVE SumWeights(_, _)
SumWeights(kws, idx) ==
    IF idx = {} THEN 0
    ELSE LET k == CHOOSE x \in idx : TRUE
         IN  kws[k].weight + SumWeights(kws, idx \ {k})

\* the phrase of entry e is contained in the text, in the detector's case mode
Contained(d, text, e) ==
    IF d.caseSensitive THEN includes(text, e.phrase)
    ELSE includes(toLowerCase(text), toLowerCase(e.phrase))

ContainedEntries(d, text) == {k \in 1..Len(d.keywords) : Contained(d, text, d.keywords[k])}

\* the score the formula gives from the matched entries idx of lexicon kws
FormulaScore(kws, idx) ==
    LET n == Cardinality(idx)
        W == SumWeights(kws, idx)
        cats == {kws[k].category : k \in idx}
        c == Cardinality(cats)
    IN  Min(100, Min(50, 5 * W)
            + (IF n >= 3 THEN 15 ELSE 0) + (IF n >= 5 THEN 10 ELSE 0)
            + (IF c >= 2 THEN 10 ELSE 0) + (IF c >= 3 THEN 10 ELSE 0)
            + (IF {"switching", "pain"} \subseteq cats THEN 10 ELSE 0)
            + (IF {"churn", "alternative"} \subseteq cats THEN 15 ELSE 0)
            + (IF {"switching", "timeline"} \subseteq cats THEN 10 ELSE 0))

\* C2: for every text of at least 10 characters the score of analyze is
\* min(100, min(50,5W) + bonuses) with n, W, c taken over the lexicon phrases
\* contained in the text
C2_ScoreFormula ==
    (AnalyzeReturned /\ Len(CallText) >= MinTextLength)
        => result.score = FormulaScore(CallDet.keywords, ContainedEntries(CallDet, CallText))

\* C3: hasDefectionSignal is true iff the number of matched phrases is at least
\* minKeywordMatches and the score is at least 30: a score of exactly 30 with
\* enough matches is a signal, a score of 29 or less is none, and a score of 30 or
\* more with fewer matches than minKeywordMatches is none
C3_SignalThreshold ==
    AnalyzeReturned =>
        /\ result.hasDefectionSignal
            <=> (Len(result.keywords) >= CallDet.minKeywordMatches /\ result.score >= 30)
        /\ (result.score = 30 /\ Len(result.keywords) >= CallDet.minKeywordMatches)
            => result.hasDefectionSignal
        /\ result.score <= 29 => ~result.hasDefectionSignal
        /\ Len(result.keywords) < CallDet.minKeywordMatches => ~result.hasDefectionSignal

\* a text scoring exactly 30 with a signal
C3_Witness ==
    /\ AnalyzeReturned
    /\ result.score = 30
    /\ result.hasDefectionSignal

\* C4: the empty string and every text shorter than 10 characters give the
\* baseline no-signal result and no error, whatever the lexicon
C4_ShortTextBaseline ==
    (AnalyzeReturned /\ Len(CallText) < 10) =>
        /\ result.kind = "result"
        /\ result.hasDefectionSignal = FALSE
        /\ result.score = 0
        /\ result.keywords = <<>>
        /\ DOMAIN result.categories = {}
        /\ result.excerpts = <<>>

\* a text of 1..9 characters that contains a phrase of the detector's lexicon
C4_Witness ==
    /\ AnalyzeReturned
    /\ Len(CallText) \in 1..9
    /\ \E k \in 1..Len(CallDet.keywords) :
          includes(toLowerCase(CallText), toLowerCase(CallDet.keywords[k].phrase))

Sentiments == {"mixed_defection", "negative", "seeking_alternative", "neutral"}

WellFormedResult(r) ==
    /\ r.kind = "result"
    /\ r.hasDefectionSignal \in BOOLEAN
    /\ IsNumber(r.score) /\ r.score \in 0..100
    /\ Len(r.keywords) = Len(r.excerpts)
    /\ r.sentiment \in Sentiments

C1_ScoreInRange ==
    /\ AnalyzeReturned => (IsNumber(result.score) /\ result.score \in 0..100)
    /\ call.op = "enhancedRuleBasedScoring"
        => (IsNumber(result.confidence) /\ result.confidence \in 0..100)

\* five or more matches whose bonuses pass 100: the score is 100
C1_Witness ==
    /\ AnalyzeReturned
    /\ Len(result.keywords) >= 5
    /\ Cardinality(DOMAIN result.categories) >= 3
    /\ result.score = 100

\* C9: scenario A on the default lexicon matches at least 4 phrases in at least
\* 3 categories, scores at least 80 and has a defection signal
C9_ScenarioA ==
    (AnalyzeReturned /\ CallText = ScenarioA /\ CallDet.keywords = getDefaultKeywords) =>
        /\ Len(result.keywords) >= 4
        /\ Cardinality(DOMAIN result.categories) >= 3
        /\ result.score >= 80
        /\ result.hasDefectionSignal

\* C10: scenario C is classified hot by the edge-function scoreLead and by
\* enhancedRuleBasedScoring
C10_ScenarioC ==
    (call.op \in {"scoreLead", "enhancedRuleBasedScoring"} /\ call.text = JsStr(ScenarioC))
        => result.score = "hot"

\* enhancedRuleBasedScoring has returned for scenario C
C10_Witness ==
    /\ call.op = "enhancedRuleBasedScoring"
    /\ call.text = JsStr(ScenarioC)
    /\ result.kind = "scored"

\* entries that can be added to a lexicon
ExtraKeywords ==
    {SampleKeywords[i] : i \in 1..Len(SampleKeywords)}
    \cup {KW(<<"r","e","n","e","w","i","n","g">>, 1, "churn")}

HasKey(kws, p) == \E k \in 1..Len(kws) : kws[k].phrase = p

\* the detector with one more keyword; a new key comes last in the keywords object
WithKeyword(d, e) == [d EXCEPT !.keywords = Append(@, e)]

\* entry e, not a key of the lexicon, matches the text
Addable(d, text, e) == ~HasKey(d.keywords, e.phrase) /\ Contained(d, text, e)

\* C7: adding one more matching phrase of positive weight to the lexicon, the
\* text and the other entries fixed, never decreases the score
C7_Monotone ==
    AnalyzeReturned =>
        \A e \in ExtraKeywords :
            Addable(CallDet, CallText, e)
                => analyze(WithKeyword(CallDet, e), call.text).score >= result.score

\* a matching phrase whose addition raises the score
C7_Witness ==
    /\ AnalyzeReturned
    /\ Len(result.keywords) >= 3
    /\ \E e \in ExtraKeywords :
          /\ Addable(CallDet, CallText, e)
          /\ analyze(WithKeyword(CallDet, e), call.text).score > result.score

\* C6: a text that is not a string, or a lexicon with an entry that lacks its
\* weight or category, is rejected with an error and no result object is returned
C6_RejectsInvalid ==
    (call.op = "analyze" /\ (~IsString(call.text) \/ ~WellFormedLexicon(CallDet.keywords)))
        => result.kind = "throw"

\* C8: analyze returns what its text and the configuration its detector was built
\* from give, whatever calls were made before on this or on the other detector,
\* and no step changes the fields of a detector once it is built
C8_Isolation ==
    /\ [](call.op = "analyze"
            => result = analyze(constructor(det[call.inst].config), call.text))
    /\ [][\A i \in Instances : det[i].constructed => det'[i] = det[i]]_vars

\* analyze has matched phrases on one detector while the other holds another lexicon
C8_Witness ==
    /\ AnalyzeReturned
    /\ Len(result.keywords) > 0
    /\ \E j \in Instances :
          /\ j # call.inst
          /\ det[j].constructed
          /\ det[j].fields.keywords # CallDet.keywords


RECURSIVE TotalLength(_, _)
\* the total length of the lists of categories cs
TotalLength(categories, cs) ==
    IF cs = {} THEN 0
    ELSE LET c == CHOOSE x \in cs : TRUE
         IN  Len(categories[c]) + TotalLength(categories, cs \ {c})

\* the category lists that hold phrase p
ListsHolding(categories, p) ==
    {c \in DOMAIN categories : \E k \in 1..Len(categories[c]) : categories[c][k] = p}

\* C13: in every result of analyze each phrase of keywords is in exactly one
\* category list, every phrase of a category list is in keywords, no category
\* list is empty, and matchCount = number of keywords = total length of the
\* category lists = number of excerpts
C13_Consistent ==
    (call.op = "analyze" /\ result.kind = "result") =>
        /\ \A j \in 1..Len(result.keywords) :
              Cardinality(ListsHolding(result.categories, result.keywords[j])) = 1
        /\ \A c \in DOMAIN result.categories :
              /\ result.categories[c] # <<>>
              /\ \A k \in 1..Len(result.categories[c]) :
                    \E j \in 1..Len(result.keywords) : result.keywords[j] = result.categories[c][k]
        /\ "matchCount" \in DOMAIN result
        /\ result.matchCount = Len(result.keywords)
        /\ TotalLength(result.categories, DOMAIN result.categories) = Len(result.keywords)
        /\ Len(result.excerpts) = Len(result.keywords)

\* the options the detector of the call was built with
CallConfig == det[call.inst].config

\* C14: a detector built with a zero or negative contextWindow or
\* minKeywordMatches returns a well-formed result from analyze, the result of a
\* detector with contextWindow 0 or 100 and minKeywordMatches 1
C14_OutOfRangeOptions ==
    (AnalyzeReturned /\ CallConfig.minKeywordMatches <= 0 /\ CallConfig.contextWindow <= 0) =>
        /\ WellFormedResult(result)
        /\ \E w \in {0, DefaultContextWindow} :
              result = analyze([CallDet EXCEPT !.contextWindow = w,
                                               !.minKeywordMatches = DefaultMinKeywordMatches],
                               call.text)

ExtractReturned == call.op \in {"extractPainPoints", "extractDesiredFeatures"}

\* the fragments collected for the call, pattern after pattern, before deduplication
CallCollected ==
    IF call.op = "extractPainPoints" THEN CollectMatches(painPatterns, 1, call.text.val)
    ELSE CollectMatches(featurePatterns, 1, call.text.val)

Elements(list) == {list[i] : i \in 1..Len(list)}

\* where x is first collected
FirstCollected(list, x) ==
    CHOOSE i \in 1..Len(list) : list[i] = x /\ \A k \in 1..(i - 1) : list[k] # x

\* C15: extractPainPoints and extractDesiredFeatures return at most 5 strings, no
\* two of them equal, each trimmed, in the order in which the fragments were
\* first collected
C15_ExtractedLists ==
    ExtractReturned =>
        LET v == result.value
            collected == CallCollected
        IN  /\ Len(v) <= 5
            /\ \A i, j \in 1..Len(v) : i # j => v[i] # v[j]
            /\ \A i \in 1..Len(v) :
                  v[i] # <<>> => (v[i][1] \notin WhiteSpace /\ v[i][Len(v[i])] \notin WhiteSpace)
            /\ Elements(v) \subseteq Elements(collected)
            /\ Len(v) = Min(5, Cardinality(Elements(collected)))
            /\ \A i, j \in 1..Len(v) :
                  i < j => FirstCollected(collected, v[i]) < FirstCollected(collected, v[j])
            /\ \A x \in Elements(collected) \ Elements(v) :
                  \A i \in 1..Len(v) : FirstCollected(collected, v[i]) < FirstCollected(collected, x)

\* more than 5 distinct fragments collected, one of them more than once
C15_Witness ==
    /\ call.op = "extractPainPoints"
    /\ Cardinality(Elements(CallCollected)) > 5
    /\ Len(CallCollected) > Cardinality(Elements(CallCollected))
    /\ Len(result.value) = 5

\* the phrases of a stage pattern \b(p1|p2|...)\b
StagePhrases(re) == {re.items[2].items[k].s : k \in 1..Len(re.items[2].items)}

\* phrase p occurs in the text as whole words, in any case
ContainsWords(text, p) ==
    LET lower == toLowerCase(text)
    IN  \E i \in 0..(Len(lower) - Len(p)) :
            /\ OccursAt(lower, p, i)
            /\ (i = 0 \/ lower[i] \notin WordChars)
            /\ (i + Len(p) = Len(lower) \/ lower[i + Len(p) + 1] \notin WordChars)

HasStage(text, re) == \E p \in StagePhrases(re) : ContainsWords(text, p)

\* C16: detectStage gives the highest stage in the order implemented > decided >
\* evaluating > researching whose phrase the text contains, and unknown when it
\* contains none: a researching phrase together with "now using" is implemented
C16_StagePriority ==
    call.op = "detectStage" =>
        LET text == call.text.val
        IN  result.value =
                IF HasStage(text, StageImplemented) THEN "implemented"
                ELSE IF HasStage(text, StageDecided) THEN "decided"
                ELSE IF HasStage(text, StageEvaluating) THEN "evaluating"
                ELSE IF HasStage(text, StageResearching) THEN "researching"
                ELSE "unknown"

\* a researching phrase and "now using" in one text
C16_Witness ==
    /\ call.op = "detectStage"
    /\ HasStage(call.text.val, StageResearching)
    /\ ContainsWords(call.text.val, <<"n","o","w"," ","u","s","i","n","g">>)
    /\ result.value = "implemented"

\* the labels of detectTimeline in their order, each with the phrases of its pattern
TimelineLabels ==
    <<[value |-> "ASAP",
       phrases |-> {<<"a","s","a","p">>,
                    <<"i","m","m","e","d","i","a","t","e","l","y">>,
                    <<"r","i","g","h","t"," ","a","w","a","y">>,
                    <<"u","r","g","e","n","t">>}],
      [value |-> "This week",
       phrases |-> {<<"t","h","i","s"," ","w","e","e","k">>,
                    <<"w","i","t","h","i","n"," ","a"," ","w","e","e","k">>,
                    <<"n","e","x","t"," ","f","e","w"," ","d","a","y","s">>}],
      [value |-> "This month",
       phrases |-> {<<"t","h","i","s"," ","m","o","n","t","h">>,
                    <<"e","n","d"," ","o","f"," ","m","o","n","t","h">>,
                    <<"m","o","n","t","h"," ","e","n","d">>}],
      [value |-> "Next month",
       phrases |-> {<<"n","e","x","t"," ","m","o","n","t","h">>,
                    <<"c","o","m","i","n","g"," ","m","o","n","t","h">>}],
      [value |-> "This quarter",
       phrases |-> {<<"t","h","i","s"," ","q","u","a","r","t","e","r">>,
                    <<"q","1">>,
                    <<"q","2">>,
                    <<"q","3">>,
                    <<"q","4">>,
                    <<"q","u","a","r","t","e","r">>}],
      [value |-> "Next quarter",
       phrases |-> {<<"n","e","x","t"," ","q","u","a","r","t","e","r">>,
                    <<"c","o","m","i","n","g"," ","q","u","a","r","t","e","r">>}],
      [value |-> "This year",
       phrases |-> {<<"t","h","i","s"," ","y","e","a","r">>,
                    <<"e","n","d"," ","o","f"," ","y","e","a","r">>,
                    <<"y","e","a","r"," ","e","n","d">>}],
      [value |-> "6 months",
       phrases |-> {<<"6"," ","m","o","n","t","h","s">>,
                    <<"s","i","x"," ","m","o","n","t","h","s">>,
                    <<"h","a","l","f"," ","y","e","a","r">>}],
      [value |-> "1 year",
       phrases |-> {<<"1"," ","y","e","a","r">>,
                    <<"o","n","e"," ","y","e","a","r">>,
                    <<"a","n","n","u","a","l">>}]>>

\* the labels whose pattern has a phrase contained in the text, in any case
LabelsIn(text) ==
    {k \in 1..Len(TimelineLabels) :
        \E p \in TimelineLabels[k].phrases : includes(toLowerCase(text), p)}

\* C17: detectTimeline returns the label of the first pattern that matches, in the
\* order ASAP, This week, This month, Next month, This quarter, Next quarter,
\* This year, 6 months, 1 year, and null when none matches
C17_FirstTimeline ==
    call.op = "detectTimeline" =>
        LET labels == LabelsIn(call.text.val)
        IN  IF labels = {} THEN result.value = JsNull
            ELSE result.value =
                    JsStr(TimelineLabels[CHOOSE k \in labels : \A l \in labels : k <= l].value)

\* two labels in one text, the later one first in the text
C17_Witness ==
    /\ call.op = "detectTimeline"
    /\ LabelsIn(call.text.val) = {1, 9}
    /\ includes(toLowerCase(call.text.val), <<"a","n","n","u","a","l"," ","a","s","a","p">>)
    /\ result.value = JsStr("ASAP")

\* C18: a malformed item, such as one whose text is not a string, does not abort
\* batchAnalyze: the results of all the other items are returned
C18_BatchIsolation ==
    call.op = "batchAnalyze" =>
        /\ result.kind = "value"
        /\ \A k \in 1..Len(call.items) :
              IsString(call.items[k].text) =>
                 \E j \in 1..Len(result.value) :
                    result.value[j] = BatchEntry(call.items[k], analyze(CallDet, call.items[k].text))

(***************************************************************************)
(* Properties of the three-tier scorers                                    *)
(***************************************************************************)
EdgeReturned == call.op = "scoreLead"

\* the hot-signal and warm-signal keywords contained in the lower-cased text
HotKeywordsIn(text) ==
    {i \in 1..Len(hotSignals) : includes(toLowerCase(text), hotSignals[i])}
WarmKeywordsIn(text) ==
    {i \in 1..Len(warmSignals) : includes(toLowerCase(text), warmSignals[i])}

\* C11: the edge scoreLead returns hot iff at least 2 hot keywords are contained
\* in the text, otherwise warm iff at least 1 hot or at least 2 warm keywords
\* are contained, otherwise cold
C11_EdgeThresholds ==
    EdgeReturned =>
        LET h == Cardinality(HotKeywordsIn(call.text.val))
            w == Cardinality(WarmKeywordsIn(call.text.val))
        IN  /\ result.score = "hot" <=> h >= 2
            /\ result.score = "warm" <=> (h < 2 /\ (h >= 1 \/ w >= 2))
            /\ result.score = "cold" <=> (h < 1 /\ w < 2)

\* two warm keywords and no hot keyword give warm
C11_Witness ==
    /\ EdgeReturned
    /\ HotKeywordsIn(call.text.val) = {}
    /\ Cardinality(WarmKeywordsIn(call.text.val)) = 2
    /\ result.score = "warm"

\* the dollar amount matched by the budget pattern is not a hot keyword
BudgetAmountNotHot(text) ==
    LET m == Exec(EdgeBudgetPattern, text, FALSE)
    IN  /\ m.found
        /\ \A i \in 1..Len(hotSignals) : toLowerCase(m.text) # hotSignals[i]

\* C12: a budget-pattern match is added to the hot count before the thresholds,
\* so exactly one hot keyword plus a dollar amount that is not a hot keyword is hot
C12_BudgetBonus ==
    (EdgeReturned
        /\ Cardinality(HotKeywordsIn(call.text.val)) = 1
        /\ BudgetAmountNotHot(call.text.val))
        => result.score = "hot"

(***************************************************************************)
(* Properties of scoreLead of services/aiScorer.js                         *)
(***************************************************************************)
\* the call in progress is scoreLead of services/aiScorer.js
ScoreLeadCalled == call.op = "aiScorer.scoreLead"

\* an environment variable that is unset or empty
NotConfigured(v) == v = JsUndefined \/ v = JsStr(<<>>)

\* the provider of the call is groq, together or openai and its API key is not configured
KeyMissing ==
    \/ call.provider = JsStr(ProviderGroq) /\ NotConfigured(env.GROQ_API_KEY)
    \/ call.provider = JsStr(ProviderTogether) /\ NotConfigured(env.TOGETHER_API_KEY)
    \/ call.provider = JsStr(ProviderOpenAI) /\ NotConfigured(env.OPENAI_API_KEY)

\* the provider of the call is not a key of PROVIDERS
UnknownProvider == call.provider # JsUndefined /\ call.provider.val \notin ProviderNames

\* the provider is omitted and LLM_PROVIDER is unset
DefaultUnset == call.provider = JsUndefined /\ env.LLM_PROVIDER = JsUndefined

\* the call has resolved with the rule-based result for its lead text and sent no request
RuleBasedOffline ==
    /\ call.pc = "resolved"
    /\ call.requests = <<>>
    /\ result = enhancedRuleBasedScoring(call.leadText.val)

\* C19: with LLM_PROVIDER unset the default provider is 'rule'; and scoreLead with provider
\* groq, together or openai whose API key is not configured, or with an unknown provider,
\* sends no provider request and resolves with the rule-based result for the lead text
C19_NoKeyRuleBased ==
    ScoreLeadCalled /\ (DefaultUnset \/ KeyMissing \/ UnknownProvider) => RuleBasedOffline

\* a groq call without GROQ_API_KEY, in an environment where another provider's key is set,
\* has resolved rule-based without a request
C19_Witness ==
    /\ ScoreLeadCalled
    /\ call.provider = JsStr(ProviderGroq)
    /\ env.GROQ_API_KEY = JsUndefined
    /\ ~NotConfigured(env.OPENAI_API_KEY)
    /\ RuleBasedOffline
    /\ result.kind = "scored"

\* the provider of the call is 'local', given or through LLM_PROVIDER=local
LocalProvider ==
    \/ call.provider = JsStr(ProviderLocal)
    \/ call.provider = JsUndefined /\ env.LLM_PROVIDER = JsStr(ProviderLocal)

\* C20: scoreLead with provider 'local' (LLM_PROVIDER=local) returns the rule-based keyword
\* result and needs no network request
C20_LocalIsRuleBased ==
    ScoreLeadCalled /\ LocalProvider => RuleBasedOffline

(***************************************************************************)
(* Properties of the sentiment label and of the case mode of analyze       *)
(***************************************************************************)
\* the categories the returned result reports as matched
MatchedCategories == DOMAIN result.categories

\* C22: the sentiment of analyze is mixed_defection iff (pain or churn matched) and
\* (switching or alternative matched), negative iff pain or churn matched and neither
\* switching nor alternative, seeking_alternative iff switching or alternative matched
\* and neither pain nor churn, neutral otherwise, whatever the score
C22_SentimentFromCategories ==
    AnalyzeReturned =>
        LET neg == MatchedCategories \cap {"pain", "churn"} # {}
            pos == MatchedCategories \cap {"switching", "alternative"} # {}
        IN  /\ result.sentiment = "mixed_defection" <=> (neg /\ pos)
            /\ result.sentiment = "negative" <=> (neg /\ ~pos)
            /\ result.sentiment = "seeking_alternative" <=> (pos /\ ~neg)
            /\ result.sentiment = "neutral" <=> (~neg /\ ~pos)

\* a result with a churn and an alternative match is mixed_defection
C22_Witness ==
    /\ AnalyzeReturned
    /\ {"churn", "alternative"} \subseteq MatchedCategories
    /\ result.sentiment = "mixed_defection"

\* the phrases of the lexicon the returned result reports as matched
MatchedPhrases == {result.keywords[j] : j \in 1..Len(result.keywords)}

\* C25: with caseSensitive = true a lexicon keyword is matched only if it occurs in the
\* text as an exact-case substring, and a text that contains no lexicon keyword yields
\* zero matches, score 0 and no signal
C25_ExactCaseMatches ==
    (AnalyzeReturned /\ CallDet.caseSensitive) =>
        /\ \A k \in 1..Len(CallDet.keywords) :
              CallDet.keywords[k].phrase \in MatchedPhrases
                  => includes(CallText, CallDet.keywords[k].phrase)
        /\ (\A k \in 1..Len(CallDet.keywords) : ~includes(CallText, CallDet.keywords[k].phrase))
              => /\ result.keywords = <<>>
                 /\ result.score = 0
                 /\ ~result.hasDefectionSignal

(***************************************************************************)
(* Reachability of the timeline labels                                     *)
(***************************************************************************)
\* the only timeline phrase of the text is "next quarter": no phrase of another label
\* occurs but the word quarter itself
OnlyNextQuarter(text) ==
    /\ includes(toLowerCase(text), <<"n","e","x","t"," ","q","u","a","r","t","e","r">>)
    /\ LabelsIn(text) \subseteq {5, 6}
    /\ \A p \in TimelineLabels[5].phrases \ {<<"q","u","a","r","t","e","r">>} : ~includes(toLowerCase(text), p)

\* C30: every timeline label is returned for some input; a text whose only timeline
\* phrase is "next quarter" yields 'Next quarter'
C30_NextQuarterReturned ==
    (call.op = "detectTimeline" /\ OnlyNextQuarter(call.text.val))
        => result.value = JsStr("Next quarter")

(***************************************************************************)
(* Properties of the point totals of the lead scorers                      *)
(***************************************************************************)
\* the keywords of list contained in the text, each keyword once, whatever its case
KeywordsContained(list, text) ==
    {toLowerCase(list[i]) : i \in {j \in 1..Len(list) :
                                      includes(toLowerCase(text), toLowerCase(list[j]))}}

\* some budget pattern matches the text
AnyBudgetPattern(text) ==
    \E k \in 1..Len(budgetPatterns) : Test(budgetPatterns[k].re, text, budgetPatterns[k].ci)

\* 3 x hot keywords + 2 for a budget pattern + warm keywords - cold keywords
PointTotal(text) ==
    3 * Cardinality(KeywordsContained(SignalsHot, text))
        + (IF AnyBudgetPattern(text) THEN 2 ELSE 0)
        + Cardinality(KeywordsContained(SignalsWarm, text))
        - Cardinality(KeywordsContained(SignalsCold, text))

\* C23: the totalScore of enhancedRuleBasedScoring is 3 x (hot keywords contained)
\* + 2 if a budget pattern matches + (warm keywords contained) - (cold keywords
\* contained), each keyword counted once; hot iff totalScore >= 6, warm iff
\* 2 <= totalScore < 6, cold iff totalScore < 2
C23_PointTotal ==
    call.op = "enhancedRuleBasedScoring" =>
        LET total == PointTotal(call.text.val)
        IN  /\ result.scoreDetails.totalScore = total
            /\ result.score = "hot" <=> total >= 6
            /\ result.score = "warm" <=> (2 <= total /\ total < 6)
            /\ result.score = "cold" <=> total < 2

\* the text of the lead mentions a budget term
BudgetTermIn(text) ==
    \E t \in {<<"b","u","d","g","e","t">>, <<"s","p","e","n","d">>, <<"i","n","v","e","s","t","m","e","n","t">>, <<"$">>, <<"m","o","n","t","h","l","y">>, <<"a","d"," ","s","p","e","n","d">>} :
        includes(text, t)

\* the text of the lead mentions an urgency term
UrgencyTermIn(text) ==
    \E t \in {<<"a","s","a","p">>, <<"u","r","g","e","n","t">>, <<"i","m","m","e","d","i","a","t","e","l","y">>, <<"t","h","i","s"," ","w","e","e","k">>, <<"r","i","g","h","t"," ","n","o","w">>} :
        includes(text, t)

\* C24: the worker's scoreLead adds 2 points for a budget term and 2 points for an
\* urgency term, so a lead with both and no other signals is hot
C24_BudgetAndUrgencyHot ==
    (call.op = "worker.scoreLead"
        /\ BudgetTermIn(WorkerLeadText(call.lead))
        /\ UrgencyTermIn(WorkerLeadText(call.lead))
        /\ call.lead.signals = <<>>)
        => result.value = "hot"

(***************************************************************************)
(* Fallback of scoreLead of services/aiScorer.js                           *)
(***************************************************************************)
\* C26: whenever scoreLead does not return a parsed AI answer, the promise resolves
\* with enhancedRuleBasedScoring of the original lead text
C26_FallbackScoresLead ==
    (ScoreLeadCalled /\ call.pc = "resolved" /\ result.kind # "ai")
        => result = enhancedRuleBasedScoring(call.leadText.val)

(***************************************************************************)
(* Properties of the detection pipeline                                    *)
(***************************************************************************)
\* C27: in every reachable state there is at most one defector_leads row per review_id,
\* also when two detection runs of the same user interleave
C27_OneLeadPerReview ==
    \A id \in 1..Len(db.reviews) : Cardinality(LeadsOf(db.leads, id)) <= 1

\* the lead's stored defection_intent_score is below the user's configured min_defection_score
BelowMinimum(lead_id) ==
    db.config # NoRow /\ db.leads[lead_id].defection_intent_score < db.config.min_defection_score

\* C21: no defector_alerts row (new_defector or high_intent) exists and no notification
\* was delivered for a lead whose defection_intent_score is below the user's configured
\* min_defection_score
C21_MinScoreRespected ==
    /\ \A k \in 1..Len(db.alerts) : ~BelowMinimum(db.alerts[k].defector_lead_id)
    /\ \A k \in 1..Len(sent) : ~BelowMinimum(sent[k].defector_lead_id)

\* the review row is recorded as processed with has_defection_signal = true
SignalRecorded(id) ==
    id <= Len(db.reviews) /\ db.reviews[id].processed /\ db.reviews[id].has_defection_signal

\* C28: every review recorded as processed with has_defection_signal = true eventually
\* has a defector_leads row, in that run or a later one, even if the lead insert fails
\* on the first attempt
C28_NoSignalLost ==
    \A id \in 1..MaxReviews : SignalRecorded(id) ~> (LeadsOf(db.leads, id) # {})

(***************************************************************************)
(* Properties of distributeLeads                                           *)
(***************************************************************************)
\* C29: between two monthly resets the number of leads created for the user never
\* exceeds the user's leadsLimit, also when two runWorker executions overlap
C29_WithinLimit == store.created <= store.user.leadsLimit
====
